---------------------------- MODULE Spec2Model ----------------------------
(***************************************************************************)
(* Model of the championship tool: text primitives (utils.c), the team     *)
(* registry (bd_times.c), the match registry (bd_partidas.c) and the       *)
(* driver (main.c).                                                        *)
(*                                                                         *)
(* C strings are sequences of byte values 1..255 (the terminating NUL is   *)
(* implicit: position Len(s)+1 reads as 0).  C ints are 32-bit.            *)
(***************************************************************************)
EXTENDS Integers, Sequences, FiniteSets, TLC

VARIABLES
    a_pc,       \* safe_atoi: position in the function ("idle" between calls)
    a_s,        \* safe_atoi: the argument s
    a_p,        \* safe_atoi: index of *p in s (1-based)
    a_sign,     \* safe_atoi: sign
    a_val,      \* safe_atoi: val, the accumulator
    a_d,        \* safe_atoi: d, the digit about to be accumulated
    a_ret,      \* safe_atoi: the value returned
    a_written,  \* safe_atoi: whether *out has been stored
    a_out,      \* safe_atoi: *out (meaningful only when a_written)
    a_prev,     \* the previous call seen by the caller: [cls, ret, written]
    t_pc,       \* text primitives: "idle", or "done" after a call
    t_fn,       \* text primitives: the function called
    t_units,    \* the code points the argument was built from (one byte sequence each)
    t_s,        \* argument: text / s
    t_prefix,   \* argument: prefix
    t_width,    \* argument: width
    t_bool,     \* result of str_starts_with_case_insensitive
    t_int,      \* result of utf8_len
    t_out,      \* bytes print_utf8_padded wrote to stdout
    u_pc,       \* print_utf8_padded step by step: "idle", "len", "copy" or "done"
    u_units,    \* the code points its argument s was built from
    u_s,        \* argument: s
    u_width,    \* argument: width
    u_p,        \* index of *p in s, in utf8_len and then in utf8_copy_n_cps
    u_vis,      \* count of utf8_len, then vis
    u_buf,      \* the bytes utf8_copy_n_cps has put in buf
    u_cps,      \* cps of utf8_copy_n_cps
    u_out,      \* bytes written to stdout
    r_fn,       \* row parsers: the parser called ("none" between calls)
    r_fields,   \* the fields of the row, before padding
    r_k,        \* the field that is padded
    r_pre,      \* the whitespace put before field r_k
    r_post,     \* the whitespace put after field r_k
    r_eol,      \* the line ending of the row
    r_line,     \* the line given to the parser
    r_res,      \* what the parser returned
    q_pc,       \* bdtimes_buscar_por_prefixo: "idle", or "done" after a call
    q_bd,       \* argument bd: the names of the teams, in registry order
    q_prefixo,  \* argument: prefixo
    q_max,      \* argument: max_indices
    q_found,    \* the value returned
    q_indices,  \* the caller's memory from indices[0] on: -1 where nothing was written
    pc,         \* main: where the program is
    bdt,        \* BDTimes: the teams loaded, in registry order
    bdp,        \* BDPartidas: the matches loaded, in registry order
    buf,        \* the load in progress: buf, the line fgets read last
    count,      \* the load in progress: count
    diag,       \* what the last step reported ("none" if nothing)
    f_open,     \* whether the load in progress holds an open FILE
    f_rest,     \* bytes of the current physical line fgets has not returned yet
    f_nolf,     \* the line read last had no '\n': the file ends there
    f_read,     \* data lines (after the header) read from the file so far
    f_closes,   \* fclose calls made by the load in progress or just finished
    scr,        \* the standings table printed on screen last, row by row
    fil,        \* the rows of bd_classificacao.csv
    exit_code,  \* the process exit code, -1 while it runs
    k_i,        \* the fold step by step: i, the matches dealt with so far
    k_side,     \* the fold step by step: "home" once the home side of match i is accumulated
    o_fresh,    \* the number of teams the registry held when the fold ran last (0 if it never ran)
    o_folds,    \* the number of times the fold has run
    in_eof,     \* whether a read of stdin has met the end of the input
    in_line,    \* the line read_line returned last, without its '\n'
    sub_op,     \* consultar_partidas: op[0] of the option read, -1 outside the prefix prompt
    m_call,     \* the search or listing function called last, with its prefix
    m_rows,     \* the rows the search or listing called last printed
    m_none      \* whether the function called last printed its no-results message

atoi_vars == <<a_pc, a_s, a_p, a_sign, a_val, a_d, a_ret, a_written, a_out, a_prev>>

text_vars == <<t_pc, t_fn, t_units, t_s, t_prefix, t_width, t_bool, t_int, t_out>>

print_vars == <<u_pc, u_units, u_s, u_width, u_p, u_vis, u_buf, u_cps, u_out>>

row_vars == <<r_fn, r_fields, r_k, r_pre, r_post, r_eol, r_line, r_res>>

search_vars == <<q_pc, q_bd, q_prefixo, q_max, q_found, q_indices>>

load_vars == <<buf, count, f_open, f_rest, f_nolf, f_read, f_closes>>

fold_vars == <<k_i, k_side>>

order_vars == <<o_fresh, o_folds>>

menu_vars == <<in_eof, in_line, sub_op, m_call, m_rows, m_none>>

prog_vars == <<pc, bdt, bdp, diag, load_vars, scr, fil, exit_code, fold_vars, order_vars, menu_vars>>

vars == <<atoi_vars, text_vars, print_vars, row_vars, search_vars, prog_vars>>

-----------------------------------------------------------------------------
(* Bounds of the model *)

\* longest free tail appended to a prefix of the boundary digits
MaxTail == 2
\* most leading zeros put in front of a number
MaxZeros == 1
\* longest text and longest prefix given to str_starts_with_case_insensitive
MaxTextLen == 3
MaxPrefixLen == 2
\* most code points in a string given to utf8_len and print_utf8_padded
MaxCps == 3
\* largest width given to print_utf8_padded
MaxWidth == 3
\* code points in the long strings given to print_utf8_padded
LongCps == 66
\* longest run of whitespace put around a field of a row
MaxPad == 1
\* data lines of the shorter team file and match file of the capacity runs
CapTeamLines == 32
CapMatchLines == 250
\* most teams in a registry searched by prefix
MaxSearchTeams == 3
\* most data lines in the team file and in the match file
MaxTeamLines == 2
MaxMatchLines == 2
\* most data lines in a file with lines longer than the read buffer
MaxLongLines == 2
\* a caller of the operations in any order: most data lines in a file, most
\* runs of the fold
MaxOrdLines == 1
MaxFolds == 2
\* the interactive loop: most data lines in a team file
MaxMenuLines == 2

-----------------------------------------------------------------------------
(* C basics *)

INT_MAX == 2147483647
INT_MIN == (-INT_MAX) - 1

\* s[p] with the terminating NUL at Len(s)+1
Byte(s, p) == IF p <= Len(s) THEN s[p] ELSE 0

isdigit(c) == c >= 48 /\ c <= 57

isspace(c) == c = 32 \/ (c >= 9 /\ c <= 13)

tolower(c) == IF c >= 65 /\ c <= 90 THEN c + 32 ELSE c

\* a + b on 32-bit two's complement ints (what the usual build does on overflow)
AddWrap(a, b) ==
    IF b > 0 /\ a > INT_MAX - b THEN INT_MIN + ((a - (INT_MAX - b)) - 1)
    ELSE IF b < 0 /\ a < INT_MIN - b THEN INT_MAX - (((INT_MIN - b) - a) - 1)
    ELSE a + b

-----------------------------------------------------------------------------
(* safe_atoi, utils.c:221-258 *)

\* the range test made before the multiply-add (without the digit: a slip)
OverflowGuardNoDigit(val, d) == val > INT_MAX \div 10

\* utils.c:248  if (val > (2147483647 - d) / 10) return 0;
OverflowGuard(val, d) == val > (INT_MAX - d) \div 10

\* utils.c:251  val = val * 10 + d;
MulAdd(val, d) ==
    LET x2 == AddWrap(val, val)
        x4 == AddWrap(x2, x2)
        x8 == AddWrap(x4, x4)
    IN  AddWrap(AddWrap(x8, x2), d)

\* a variant that tells the overflow return from the invalid-character return
atoi_digit_status_codes(val, c) ==
    IF ~isdigit(c) THEN 0
    ELSE IF OverflowGuard(val, c - 48) THEN -1
    ELSE 1

\* utils.c:240-248: what the loop body decides for the byte c: 0 is
\* "return 0", 1 is "go on to the multiply-add"
atoi_digit_status(val, c) ==
    IF ~isdigit(c) THEN 0
    ELSE IF OverflowGuard(val, c - 48) THEN 0
    ELSE 1

RECURSIVE atoi_loop(_, _, _)
\* utils.c:238-253: the while loop from position p with accumulator val
atoi_loop(s, p, val) ==
    IF Byte(s, p) = 0 THEN [ret |-> 1, val |-> val]
    ELSE LET st == atoi_digit_status(val, s[p]) IN
         IF st # 1 THEN [ret |-> st, val |-> val]
         ELSE atoi_loop(s, p + 1, MulAdd(val, s[p] - 48))

\* safe_atoi as its callers see it: [ret, written, out]
safe_atoi(s) ==
    IF Byte(s, 1) = 0 THEN [ret |-> 0, written |-> FALSE, out |-> 0]
    ELSE LET sign == IF s[1] = 45 THEN -1 ELSE 1
             p0   == IF s[1] = 45 THEN 2 ELSE 1
         IN  IF ~isdigit(Byte(s, p0)) THEN [ret |-> 0, written |-> FALSE, out |-> 0]
             ELSE LET r == atoi_loop(s, p0, 0) IN
                  IF r.ret # 1 THEN [ret |-> r.ret, written |-> FALSE, out |-> 0]
                  ELSE [ret |-> 1, written |-> TRUE, out |-> r.val * sign]

-----------------------------------------------------------------------------
(* str_starts_with_case_insensitive, utils.c:102-145 *)

RECURSIVE starts_with_stop_at_text_end(_, _, _)
\* the loop written as while (*prefix && *text): an exhausted text matches
starts_with_stop_at_text_end(text, prefix, i) ==
    IF Byte(prefix, i) = 0 \/ Byte(text, i) = 0 THEN 1
    ELSE IF tolower(text[i]) # tolower(prefix[i]) THEN 0
    ELSE starts_with_stop_at_text_end(text, prefix, i + 1)

RECURSIVE starts_with_case_insensitive_impl(_, _, _)
\* utils.c:102-122, with text and prefix both advanced to index i
starts_with_case_insensitive_impl(text, prefix, i) ==
    IF Byte(prefix, i) = 0 THEN 1
    ELSE IF Byte(text, i) = 0 THEN 0
    ELSE IF tolower(text[i]) # tolower(prefix[i]) THEN 0
    ELSE starts_with_case_insensitive_impl(text, prefix, i + 1)

\* utils.c:139-145 (the arguments are never NULL here)
str_starts_with_case_insensitive(text, prefix) ==
    starts_with_case_insensitive_impl(text, prefix, 1) # 0

-----------------------------------------------------------------------------
(* UTF-8 helpers, utils.c:277-442 *)

\* every lead byte >= 0xC0 taken as a 2-byte sequence
utf8_cp_bytes_two_only(c) == IF c < 128 THEN 1 ELSE IF c >= 192 THEN 2 ELSE 1

\* utils.c:277-292: the length announced by lead byte c
utf8_cp_bytes(c) ==
    IF c < 128 THEN 1
    ELSE IF c >= 192 /\ c <= 223 THEN 2
    ELSE IF c >= 224 /\ c <= 239 THEN 3
    ELSE IF c >= 240 /\ c <= 247 THEN 4
    ELSE 1

RECURSIVE utf8_scan(_, _, _)
\* utils.c:322-331: the loop of utf8_len from index p; overrun tells that p
\* was advanced past the terminating NUL
utf8_scan(s, p, n) ==
    IF p > Len(s) + 1 THEN [count |-> n, overrun |-> TRUE]
    ELSE IF Byte(s, p) = 0 THEN [count |-> n, overrun |-> FALSE]
    ELSE utf8_scan(s, p + utf8_cp_bytes(s[p]), n + 1)

\* utils.c:314-334
utf8_len(s) == utf8_scan(s, 1, 0).count

PRINT_BUF_CAP == 256

RECURSIVE utf8_copy_loop(_, _, _, _, _, _)
\* utils.c:359-373: dst after the loop, from source index p with cps code
\* points already copied
utf8_copy_loop(dst, cap, s, width, p, cps) ==
    IF p > Len(s) \/ cps >= width THEN dst
    ELSE LET n == utf8_cp_bytes(s[p]) IN
         IF Len(dst) + n >= cap THEN dst
         ELSE utf8_copy_loop(dst \o [i \in 1..n |-> Byte(s, p + i - 1)],
                             cap, s, width, p + n, cps + 1)

\* utils.c:353-381: the bytes put in dst before its terminating NUL
utf8_copy_n_cps(cap, s, width) == utf8_copy_loop(<<>>, cap, s, width, 1, 0)

\* what fputs prints of a buffer: the bytes before the first NUL
CStr(b) ==
    LET nuls == {i \in 1..Len(b) : b[i] = 0} IN
    IF nuls = {} THEN b
    ELSE SubSeq(b, 1, (CHOOSE i \in nuls : \A j \in nuls : i <= j) - 1)

Spaces(n) == [i \in 1..n |-> 32]

\* U+2026 in UTF-8, utils.c:439-441
Ellipsis == <<226, 128, 166>>

\* utils.c:405-442: the bytes written to stdout
print_utf8_padded(s, width) ==
    LET vis == utf8_len(s) IN
    IF vis = width THEN s
    ELSE IF vis < width THEN s \o Spaces(width - vis)
    ELSE LET keep == IF width - 1 < 0 THEN 0 ELSE width - 1
         IN  CStr(utf8_copy_n_cps(PRINT_BUF_CAP, s, keep)) \o Ellipsis

-----------------------------------------------------------------------------
(* str_trim and chomp, utils.c:37-63, bd_times.c:30-39, bd_partidas.c:14-19 *)

\* the least and the greatest of a non-empty set of positions
FirstOf(S) == CHOOSE i \in S : \A j \in S : i <= j

LastOf(S) == CHOOSE i \in S : \A j \in S : i >= j

\* strips the '\n' and '\r' bytes at the end
chomp(s) ==
    LET kept == {i \in 1..Len(s) : s[i] # 10 /\ s[i] # 13} IN
    IF kept = {} THEN <<>> ELSE SubSeq(s, 1, LastOf(kept))

\* utils.c:44-47
TrimLeft(s) ==
    LET kept == {i \in 1..Len(s) : ~isspace(s[i])} IN
    IF kept = {} THEN <<>> ELSE SubSeq(s, FirstOf(kept), Len(s))

\* utils.c:50-53
TrimRight(s) ==
    LET kept == {i \in 1..Len(s) : ~isspace(s[i])} IN
    IF kept = {} THEN <<>> ELSE SubSeq(s, 1, LastOf(kept))

\* utils.c:37-63
str_trim(s) == TrimRight(TrimLeft(s))

-----------------------------------------------------------------------------
(* strtok(.., ","), as used at bd_times.c:158-166 and bd_partidas.c:30-39 *)

\* s from its first byte that is not a comma
SkipCommas(s) ==
    LET kept == {i \in 1..Len(s) : s[i] # 44} IN
    IF kept = {} THEN <<>> ELSE SubSeq(s, FirstOf(kept), Len(s))

\* s up to its first comma
UntilComma(s) ==
    LET commas == {i \in 1..Len(s) : s[i] = 44} IN
    IF commas = {} THEN s ELSE SubSeq(s, 1, FirstOf(commas) - 1)

RECURSIVE strtok_all(_)
\* the tokens successive strtok calls return: the non-empty runs between commas
strtok_all(s) ==
    LET r == SkipCommas(s) IN
    IF r = <<>> THEN <<>>
    ELSE LET tok == UntilComma(r)
         IN  <<tok>> \o strtok_all(SubSeq(r, Len(tok) + 1, Len(r)))

-----------------------------------------------------------------------------
(* Team registry, bd_times.c *)

MAX_TIMES == 64
MAX_NOME_TIME == 64

\* a team that starts with a win
time_com_vitoria(id, nome) ==
    [id |-> id, nome |-> nome, v |-> 1, e |-> 0, d |-> 0, gm |-> 0, gs |-> 0]

\* bd_times.c:64-72, on a team just built from id and nome
time_zerar_stats(id, nome) ==
    [id |-> id, nome |-> nome, v |-> 0, e |-> 0, d |-> 0, gm |-> 0, gs |-> 0]

\* an accumulation that knows no draw: anything but a win is a loss
time_acumular_sem_empate(t, gols_feitos, gols_sofridos) ==
    LET g == [t EXCEPT !.gm = AddWrap(t.gm, gols_feitos),
                       !.gs = AddWrap(t.gs, gols_sofridos)]
    IN  IF gols_feitos > gols_sofridos THEN [g EXCEPT !.v = AddWrap(t.v, 1)]
        ELSE [g EXCEPT !.d = AddWrap(t.d, 1)]

\* an accumulation that does not count a loss
time_acumular_sem_derrota(t, gols_feitos, gols_sofridos) ==
    LET g == [t EXCEPT !.gm = AddWrap(t.gm, gols_feitos),
                       !.gs = AddWrap(t.gs, gols_sofridos)]
    IN  IF gols_feitos > gols_sofridos THEN [g EXCEPT !.v = AddWrap(t.v, 1)]
        ELSE IF gols_feitos = gols_sofridos THEN [g EXCEPT !.e = AddWrap(t.e, 1)]
        ELSE g

\* bd_times.c:89-105
time_acumular_partida(t, gols_feitos, gols_sofridos) ==
    LET g == [t EXCEPT !.gm = AddWrap(t.gm, gols_feitos),
                       !.gs = AddWrap(t.gs, gols_sofridos)]
    IN  IF gols_feitos > gols_sofridos THEN [g EXCEPT !.v = AddWrap(t.v, 1)]
        ELSE IF gols_feitos = gols_sofridos THEN [g EXCEPT !.e = AddWrap(t.e, 1)]
        ELSE [g EXCEPT !.d = AddWrap(t.d, 1)]

\* bd_times.c:118-121
time_pontos(t) == AddWrap(t.v * 3, t.e)

\* bd_times.c:133-136
time_saldo(t) == AddWrap(t.gm, -t.gs)

\* strncpy(nome, tok, MAX_NOME_TIME - 1) and the terminator, bd_times.c:175-176
CopyName(tok) ==
    SubSeq(tok, 1, IF Len(tok) < MAX_NOME_TIME - 1 THEN Len(tok) ELSE MAX_NOME_TIME - 1)

\* the parser without chomp and str_trim: the line and the name taken as read
parse_time_linha_raw(linha) ==
    LET toks == strtok_all(linha)
        fail == [ok |-> FALSE, id |-> 0, nome |-> <<>>]
    IN  IF Len(toks) < 1 THEN fail
        ELSE LET r == safe_atoi(toks[1]) IN
             IF r.ret # 1 THEN fail
             ELSE IF Len(toks) < 2 THEN fail
             ELSE [ok |-> TRUE, id |-> r.out, nome |-> CopyName(toks[2])]

\* bd_times.c:152-179: [ok, id, nome]
parse_time_linha(linha) ==
    LET toks == strtok_all(str_trim(chomp(linha)))
        fail == [ok |-> FALSE, id |-> 0, nome |-> <<>>]
    IN  IF Len(toks) < 1 THEN fail
        ELSE LET r == safe_atoi(toks[1]) IN
             IF r.ret # 1 THEN fail
             ELSE IF Len(toks) < 2 THEN fail
             ELSE [ok |-> TRUE, id |-> r.out, nome |-> CopyName(chomp(str_trim(toks[2])))]

\* a search that keeps the last team found with this id
bdtimes_buscar_ultimo_por_id(bd, id) ==
    IF \E i \in 1..Len(bd) : bd[i].id = id
    THEN CHOOSE i \in 1..Len(bd) : bd[i].id = id /\ \A j \in (i + 1)..Len(bd) : bd[j].id # id
    ELSE 0

\* bd_times.c:272-283: the index of the first team with this id, 0 for NULL
bdtimes_buscar_por_id(bd, id) ==
    IF \E i \in 1..Len(bd) : bd[i].id = id
    THEN CHOOSE i \in 1..Len(bd) : bd[i].id = id /\ \A j \in 1..(i - 1) : bd[j].id # id
    ELSE 0

\* a store that is also made when found = max_indices
StoreAllowedUpToMax(found, max_indices) == found <= max_indices

\* bd_times.c:313  if (found < max_indices)
StoreAllowed(found, max_indices) == found < max_indices

RECURSIVE prefixo_loop(_, _, _, _, _, _)
\* bd_times.c:307-320: the loop from i (counted from 0 as in C) with found and
\* the memory at indices so far
prefixo_loop(nomes, prefixo, max_indices, i, found, indices) ==
    IF i >= Len(nomes) THEN [found |-> found, indices |-> indices]
    ELSE IF str_starts_with_case_insensitive(nomes[i + 1], prefixo)
    THEN prefixo_loop(nomes, prefixo, max_indices, i + 1, found + 1,
                      IF StoreAllowed(found, max_indices)
                      THEN [indices EXCEPT ![found] = i] ELSE indices)
    ELSE prefixo_loop(nomes, prefixo, max_indices, i + 1, found, indices)

\* bd_times.c:303-323: [found, indices], on the names of the teams of bd
bdtimes_buscar_por_prefixo(nomes, prefixo, indices, max_indices) ==
    prefixo_loop(nomes, prefixo, max_indices, 0, 0, indices)

-----------------------------------------------------------------------------
(* Match registry, bd_partidas.c *)

MAX_PARTIDAS == 500

RECURSIVE parse_fields(_, _)
\* bd_partidas.c:31-40: the loop over at most 5 tokens; vals so far, or failure
parse_fields(toks, vals) ==
    IF toks = <<>> \/ Len(vals) >= 5 THEN [ok |-> TRUE, vals |-> vals]
    ELSE LET r == safe_atoi(chomp(str_trim(toks[1]))) IN
         IF r.ret # 1 THEN [ok |-> FALSE, vals |-> vals]
         ELSE parse_fields(Tail(toks), Append(vals, r.out))

\* bd_partidas.c:22-49: [ok, p]
parse_partida_linha(linha) ==
    LET r    == parse_fields(strtok_all(str_trim(chomp(linha))), <<>>)
        none == [id |-> 0, time1 |-> 0, time2 |-> 0, g1 |-> 0, g2 |-> 0]
    IN  IF ~r.ok \/ Len(r.vals) # 5 THEN [ok |-> FALSE, p |-> none]
        ELSE [ok |-> TRUE,
              p |-> [id |-> r.vals[1], time1 |-> r.vals[2], time2 |-> r.vals[3],
                     g1 |-> r.vals[4], g2 |-> r.vals[5]]]

\* bd_partidas.c:91-99: one match applied to the teams
aplicar_partida(bdt_, p) ==
    LET t1 == bdtimes_buscar_por_id(bdt_, p.time1)
        t2 == bdtimes_buscar_por_id(bdt_, p.time2)
    IN  IF t1 = 0 \/ t2 = 0 THEN bdt_
        ELSE LET b1 == [bdt_ EXCEPT ![t1] = time_acumular_partida(bdt_[t1], p.g1, p.g2)]
             IN  [b1 EXCEPT ![t2] = time_acumular_partida(b1[t2], p.g2, p.g1)]

RECURSIVE aplicar_de(_, _, _)
\* bd_partidas.c:90-100: the loop from match i
aplicar_de(bdp_, bdt_, i) ==
    IF i > Len(bdp_) THEN bdt_
    ELSE aplicar_de(bdp_, aplicar_partida(bdt_, bdp_[i]), i + 1)

\* bd_partidas.c:89-101
bdpartidas_aplicar_em_bdtimes(bdp_, bdt_) == aplicar_de(bdp_, bdt_, 1)

\* "(desconhecido)", bd_partidas.c:107
Desconhecido == <<40, 100, 101, 115, 99, 111, 110, 104, 101, 99, 105, 100, 111, 41>>

\* bd_partidas.c:103-108: the name of the first team with this id, or the
\* sentinel
nome_do_time(bd, id) ==
    IF bdtimes_buscar_por_id(bd, id) = 0 THEN Desconhecido
    ELSE bd[bdtimes_buscar_por_id(bd, id)].nome

\* the printf of a listing: | id | n1 | g1 x g2 | n2 |
ListRow(p, n1, n2) == [id |-> p.id, n1 |-> n1, g1 |-> p.g1, g2 |-> p.g2, n2 |-> n2]

RECURSIVE listar_mandante_loop(_, _, _, _, _)
\* bd_partidas.c:115-123: the loop from i (counted from 0), with the rows
\* printed so far
listar_mandante_loop(partidas, bd, prefixo, i, rows) ==
    IF i >= Len(partidas) THEN rows
    ELSE LET p  == partidas[i + 1]
             n1 == nome_do_time(bd, p.time1)
         IN  IF str_starts_with_case_insensitive(n1, prefixo)
             THEN listar_mandante_loop(partidas, bd, prefixo, i + 1,
                      Append(rows, ListRow(p, n1, nome_do_time(bd, p.time2))))
             ELSE listar_mandante_loop(partidas, bd, prefixo, i + 1, rows)

\* bd_partidas.c:124-126: if (count == 0) the no-results message
ListOut(rows) == [rows |-> rows, none |-> Len(rows) = 0]

\* bd_partidas.c:111-127: [rows, none]
bdpartidas_listar_por_mandante_prefixo(partidas, bd, prefixo) ==
    ListOut(listar_mandante_loop(partidas, bd, prefixo, 0, <<>>))

RECURSIVE listar_visitante_loop(_, _, _, _, _)
\* bd_partidas.c:134-142
listar_visitante_loop(partidas, bd, prefixo, i, rows) ==
    IF i >= Len(partidas) THEN rows
    ELSE LET p  == partidas[i + 1]
             n2 == nome_do_time(bd, p.time2)
         IN  IF str_starts_with_case_insensitive(n2, prefixo)
             THEN listar_visitante_loop(partidas, bd, prefixo, i + 1,
                      Append(rows, ListRow(p, nome_do_time(bd, p.time1), n2)))
             ELSE listar_visitante_loop(partidas, bd, prefixo, i + 1, rows)

\* bd_partidas.c:130-146: [rows, none]
bdpartidas_listar_por_visitante_prefixo(partidas, bd, prefixo) ==
    ListOut(listar_visitante_loop(partidas, bd, prefixo, 0, <<>>))

\* a test of the two names that asks for both to match
QualquerBothSides(n1, n2, prefixo) ==
    str_starts_with_case_insensitive(n1, prefixo) /\ str_starts_with_case_insensitive(n2, prefixo)

\* bd_partidas.c:157: the test of the two names
QualquerTest(n1, n2, prefixo) ==
    str_starts_with_case_insensitive(n1, prefixo) \/ str_starts_with_case_insensitive(n2, prefixo)

RECURSIVE listar_qualquer_loop(_, _, _, _, _)
\* bd_partidas.c:153-161
listar_qualquer_loop(partidas, bd, prefixo, i, rows) ==
    IF i >= Len(partidas) THEN rows
    ELSE LET p  == partidas[i + 1]
             n1 == nome_do_time(bd, p.time1)
             n2 == nome_do_time(bd, p.time2)
         IN  IF QualquerTest(n1, n2, prefixo)
             THEN listar_qualquer_loop(partidas, bd, prefixo, i + 1, Append(rows, ListRow(p, n1, n2)))
             ELSE listar_qualquer_loop(partidas, bd, prefixo, i + 1, rows)

\* bd_partidas.c:149-165: [rows, none]
bdpartidas_listar_por_qualquer_prefixo(partidas, bd, prefixo) ==
    ListOut(listar_qualquer_loop(partidas, bd, prefixo, 0, <<>>))

-----------------------------------------------------------------------------
(* Standings, bd_times.c:341-550 *)

W_ID == 3
W_TIME == 12
W_V == 2
W_E == 2
W_D == 2
W_GM == 3
W_GS == 3
W_S == 3
W_PG == 3

\* the ids the loops at bd_times.c:393 and 490 run over are 0 .. ID_LIMIT-1
ID_LIMIT == 10000

RECURSIVE NegDigits(_)
\* the decimal digits of the magnitude of n < 0
NegDigits(n) ==
    LET q == (n + 9) \div 10
        r == q * 10 - n
    IN  (IF q = 0 THEN <<>> ELSE NegDigits(q)) \o <<48 + r>>

\* printf's %d
FormatD(n) ==
    IF n = 0 THEN <<48>>
    ELSE IF n < 0 THEN <<45>> \o NegDigits(n)
    ELSE NegDigits(-n)

\* printf's %-*s and %-*d: left-justified in at least width bytes
PadBytes(s, width) == IF Len(s) >= width THEN s ELSE s \o Spaces(width - Len(s))

\* "| " c1 " | " c2 ... " |\n"
JoinRow(cols) ==
    LET RECURSIVE rest(_)
        rest(cs) == IF cs = <<>> THEN <<>> ELSE <<32, 124, 32>> \o cs[1] \o rest(Tail(cs))
    IN  <<124, 32>> \o cols[1] \o rest(Tail(cols)) \o <<32, 124, 10>>

\* the nine columns of a team: id, nome, v, e, d, gm, gs, saldo, pontos
TeamColumns(t) ==
    << FormatD(t.id), t.nome, FormatD(t.v), FormatD(t.e), FormatD(t.d),
       FormatD(t.gm), FormatD(t.gs), FormatD(time_saldo(t)), FormatD(time_pontos(t)) >>

ColumnWidths == <<W_ID, W_TIME, W_V, W_E, W_D, W_GM, W_GS, W_S, W_PG>>

\* ID Time V E D GM GS S PG
HeaderColumns ==
    << <<73, 68>>, <<84, 105, 109, 101>>, <<86>>, <<69>>, <<68>>,
       <<71, 77>>, <<71, 83>>, <<83>>, <<80, 71>> >>

\* bd_times.c:499-542: the row printed on screen for team t
ScreenRow(cols) == JoinRow([k \in 1..9 |-> print_utf8_padded(cols[k], ColumnWidths[k])])

\* bd_times.c:366-368 and 407-416: the row written to the file
FileRow(cols) == JoinRow([k \in 1..9 |-> PadBytes(cols[k], ColumnWidths[k])])

\* bd_times.c:371-389 and 477-486
SeparatorRow ==
    LET RECURSIVE rest(_)
        rest(ws) == IF ws = <<>> THEN <<>>
                    ELSE <<45, 124, 45>> \o [i \in 1..ws[1] |-> 45] \o rest(Tail(ws))
    IN  <<124, 45>> \o [i \in 1..W_ID |-> 45] \o rest(Tail(ColumnWidths)) \o <<45, 124, 10>>

RECURSIVE RowsInIdOrder(_, _)
\* bd_times.c:393-419 and 490-545: for id ascending over the ids in S, the
\* registry positions holding that id, in registry order
RowsInIdOrder(bd, S) ==
    IF S = {} THEN <<>>
    ELSE LET id == CHOOSE x \in S : \A y \in S : x <= y
         IN  SelectSeq([i \in 1..Len(bd) |-> i], LAMBDA i : bd[i].id = id)
                 \o RowsInIdOrder(bd, S \ {id})

\* the registry positions in the order the two id loops emit them
StandingsOrder(bd) ==
    RowsInIdOrder(bd, {bd[i].id : i \in 1..Len(bd)} \cap (0..(ID_LIMIT - 1)))

\* bd_times.c:450-545: what bdtimes_imprimir_classificacao prints
ScreenTable(bd) ==
    LET ord == StandingsOrder(bd) IN
    <<ScreenRow(HeaderColumns), SeparatorRow>>
        \o [k \in 1..Len(ord) |-> ScreenRow(TeamColumns(bd[ord[k]]))]

\* bd_times.c:366-419: what bdtimes_exportar_csv writes
FileTable(bd) ==
    LET ord == StandingsOrder(bd) IN
    <<FileRow(HeaderColumns), SeparatorRow>>
        \o [k \in 1..Len(ord) |-> FileRow(TeamColumns(bd[ord[k]]))]

-----------------------------------------------------------------------------
(* Inputs of safe_atoi *)

\* the digits of INT_MAX / 10
BoundaryDigits == <<50, 49, 52, 55, 52, 56, 51, 54, 52>>

\* bytes a tail is made of: 0 7 8 - a
TailChars == {48, 55, 56, 45, 97}

RECURSIVE SeqsUpTo(_, _)
\* all sequences over S of length at most n
SeqsUpTo(S, n) ==
    IF n = 0 THEN {<<>>}
    ELSE LET shorter == SeqsUpTo(S, n - 1)
         IN  shorter \cup {Append(t, c) : t \in shorter, c \in S}

Zeros(n) == [i \in 1..n |-> 48]

AtoiInputs ==
    { sg \o Zeros(z) \o SubSeq(BoundaryDigits, 1, k) \o t :
        sg \in {<<>>, <<45>>}, z \in 0..MaxZeros,
        k \in 0..Len(BoundaryDigits), t \in SeqsUpTo(TailChars, MaxTail) }

-----------------------------------------------------------------------------
(* What a decimal string denotes, independently of safe_atoi *)

IsNegative(s) == Byte(s, 1) = 45

\* the part after the optional sign
Body(s) == IF IsNegative(s) THEN SubSeq(s, 2, Len(s)) ELSE s

\* optional '-', then one or more digits
IsDecimal(s) == Len(Body(s)) >= 1 /\ \A i \in 1..Len(Body(s)) : isdigit(Body(s)[i])

RECURSIVE StripZeros(_)
StripZeros(b) == IF Len(b) > 1 /\ b[1] = 48 THEN StripZeros(Tail(b)) ELSE b

\* digit strings of the same length: a <= b
DigitsLeq(a, b) ==
    \/ a = b
    \/ \E i \in 1..Len(a) : a[i] < b[i] /\ \A j \in 1..(i - 1) : a[j] = b[j]

\* the magnitude of a digit string is at most that of the 10-digit string lim
MagnitudeAtMost(b, lim) ==
    LET m == StripZeros(b) IN
    Len(m) < Len(lim) \/ (Len(m) = Len(lim) /\ DigitsLeq(m, lim))

IntMaxDigits == Append(BoundaryDigits, 55)
IntMinDigits == Append(BoundaryDigits, 56)

\* the value lies in -2147483648 .. 2147483647
InIntRange(s) ==
    IF IsNegative(s) THEN MagnitudeAtMost(Body(s), IntMinDigits)
    ELSE MagnitudeAtMost(Body(s), IntMaxDigits)

RECURSIVE DecFold(_, _, _)
\* the value of digit string b, accumulated with the sign applied to each digit
DecFold(b, sign, acc) ==
    IF b = <<>> THEN acc
    ELSE DecFold(Tail(b), sign, acc * 10 + sign * (b[1] - 48))

\* the value of an in-range decimal string
DecValue(s) == DecFold(StripZeros(Body(s)), IF IsNegative(s) THEN -1 ELSE 1, 0)

\* why a string is not a number safe_atoi accepts: the three causes of failure
AtoiClass(s) ==
    IF s = <<>> THEN "empty"
    ELSE IF ~IsDecimal(s) THEN "invalid"
    ELSE IF ~MagnitudeAtMost(Body(s), IntMaxDigits) THEN "overflow"
    ELSE "ok"

-----------------------------------------------------------------------------
(* safe_atoi step by step *)

AtoiIdle ==
    /\ a_pc = "idle" /\ a_s = <<>> /\ a_p = 1 /\ a_sign = 1 /\ a_val = 0
    /\ a_d = 0 /\ a_ret = 0 /\ a_written = FALSE /\ a_out = 0

\* a caller passes s
AtoiCall ==
    /\ UNCHANGED <<text_vars, print_vars, row_vars, search_vars, prog_vars>>
    /\ a_pc = "idle"
    /\ \E s \in AtoiInputs : a_s' = s
    /\ a_pc' = "entry"
    /\ UNCHANGED <<a_p, a_sign, a_val, a_d, a_ret, a_written, a_out, a_prev>>

\* utils.c:223-237
AtoiEntry ==
    /\ UNCHANGED <<text_vars, print_vars, row_vars, search_vars, prog_vars>>
    /\ a_pc = "entry"
    /\ IF Byte(a_s, 1) = 0
       THEN a_ret' = 0 /\ a_pc' = "ret" /\ UNCHANGED <<a_p, a_sign, a_val>>
       ELSE LET neg == a_s[1] = 45
                p0  == IF neg THEN 2 ELSE 1
            IN  /\ a_sign' = IF neg THEN -1 ELSE 1
                /\ a_p' = p0
                /\ IF ~isdigit(Byte(a_s, p0))
                   THEN a_ret' = 0 /\ a_pc' = "ret" /\ UNCHANGED a_val
                   ELSE a_val' = 0 /\ a_pc' = "loop" /\ UNCHANGED a_ret
    /\ UNCHANGED <<a_s, a_d, a_written, a_out, a_prev>>

\* utils.c:238-248 and 255-257
AtoiLoop ==
    /\ UNCHANGED <<text_vars, print_vars, row_vars, search_vars, prog_vars>>
    /\ a_pc = "loop"
    /\ IF Byte(a_s, a_p) = 0
       THEN /\ a_out' = a_val * a_sign
            /\ a_written' = TRUE
            /\ a_ret' = 1
            /\ a_pc' = "ret"
            /\ UNCHANGED a_d
       ELSE LET st == atoi_digit_status(a_val, a_s[a_p]) IN
            IF st # 1
            THEN a_ret' = st /\ a_pc' = "ret" /\ UNCHANGED <<a_d, a_written, a_out>>
            ELSE a_d' = a_s[a_p] - 48 /\ a_pc' = "mul" /\ UNCHANGED <<a_ret, a_written, a_out>>
    /\ UNCHANGED <<a_s, a_p, a_sign, a_val, a_prev>>

\* utils.c:251-252
AtoiMul ==
    /\ UNCHANGED <<text_vars, print_vars, row_vars, search_vars, prog_vars>>
    /\ a_pc = "mul"
    /\ a_val' = MulAdd(a_val, a_d)
    /\ a_p' = a_p + 1
    /\ a_pc' = "loop"
    /\ UNCHANGED <<a_s, a_sign, a_d, a_ret, a_written, a_out, a_prev>>

\* the caller takes the result and is ready for another call
AtoiReturn ==
    /\ UNCHANGED <<text_vars, print_vars, row_vars, search_vars, prog_vars>>
    /\ a_pc = "ret"
    /\ a_prev' = [cls |-> AtoiClass(a_s), ret |-> a_ret, written |-> a_written]
    /\ a_pc' = "idle" /\ a_s' = <<>> /\ a_p' = 1 /\ a_sign' = 1 /\ a_val' = 0
    /\ a_d' = 0 /\ a_ret' = 0 /\ a_written' = FALSE /\ a_out' = 0

AtoiStart == AtoiIdle /\ a_prev = [cls |-> "none", ret |-> 0, written |-> FALSE]

\* the text primitives between calls
TextIdle ==
    /\ t_pc = "idle" /\ t_fn = "none" /\ t_units = <<>> /\ t_s = <<>>
    /\ t_prefix = <<>> /\ t_width = 0 /\ t_bool = FALSE /\ t_int = 0 /\ t_out = <<>>

\* print_utf8_padded between calls
PrintIdle ==
    /\ u_pc = "idle" /\ u_units = <<>> /\ u_s = <<>> /\ u_width = 0 /\ u_p = 1
    /\ u_vis = 0 /\ u_buf = <<>> /\ u_cps = 0 /\ u_out = <<>>

\* the row parsers between calls
RowIdle ==
    /\ r_fn = "none" /\ r_fields = <<>> /\ r_k = 0 /\ r_pre = <<>> /\ r_post = <<>>
    /\ r_eol = <<>> /\ r_line = <<>> /\ r_res = [ok |-> FALSE]

\* memory nothing was written to, from indices[0] to one past the largest max_indices
NothingWritten == [k \in 0..(MaxSearchTeams + 1) |-> -1]

\* bdtimes_buscar_por_prefixo between calls
SearchIdle ==
    /\ q_pc = "idle" /\ q_bd = <<>> /\ q_prefixo = <<>> /\ q_max = 0 /\ q_found = 0
    /\ q_indices = NothingWritten

\* no load in progress
LoadIdle ==
    /\ buf = <<>> /\ count = 0 /\ f_open = FALSE /\ f_rest = <<>>
    /\ f_nolf = FALSE /\ f_read = 0 /\ f_closes = 0

\* no query function has been called
NoCall == [fn |-> "none", prefixo |-> <<>>]

\* main.c:217-221: the registries initialised, nothing loaded or printed
ProgStart ==
    /\ pc = "t_open" /\ bdt = <<>> /\ bdp = <<>> /\ diag = "none" /\ LoadIdle
    /\ scr = <<>> /\ fil = <<>> /\ exit_code = -1
    /\ k_i = 0 /\ k_side = "none"
    /\ o_fresh = 0 /\ o_folds = 0
    /\ in_eof = FALSE /\ in_line = <<>> /\ sub_op = -1
    /\ m_call = NoCall /\ m_rows = <<>> /\ m_none = FALSE

\* the program before anything has run
Init == AtoiStart /\ TextIdle /\ PrintIdle /\ RowIdle /\ SearchIdle /\ ProgStart

AtoiNext == AtoiCall \/ AtoiEntry \/ AtoiLoop \/ AtoiMul \/ AtoiReturn

SpecAtoi == Init /\ [][AtoiNext]_vars

-----------------------------------------------------------------------------
(* Claims about safe_atoi, checked under SpecAtoi *)

AtoiFailures == {"empty", "invalid", "overflow"}

\* C1: every decimal string (optional '-', then digits) whose value lies in
\* -2147483648..2147483647 makes safe_atoi succeed and store exactly that value.
AtoiRoundTripsInRange ==
    (a_pc = "ret" /\ IsDecimal(a_s) /\ InIntRange(a_s))
        => (a_ret = 1 /\ a_written /\ a_out = DecValue(a_s))

\* C7 as stated: two failed calls with different causes (empty, invalid
\* character, overflow) give the caller different results.
AtoiFailuresDistinguishable ==
    (/\ a_pc = "ret"
     /\ a_prev.cls \in AtoiFailures
     /\ AtoiClass(a_s) \in AtoiFailures
     /\ a_prev.cls # AtoiClass(a_s))
        => <<a_ret, a_written>> # <<a_prev.ret, a_prev.written>>

\* C7 amended: every failure, whatever its cause, is the one outcome "returns 0,
\* output not stored", and success is "returns 1, output stored": the caller can
\* tell failure from success and nothing more.
AtoiSingleFailureOutcome ==
    /\ a_prev.cls \in AtoiFailures => (a_prev.ret = 0 /\ ~a_prev.written)
    /\ a_prev.cls = "ok" => (a_prev.ret = 1 /\ a_prev.written)
    /\ (a_pc = "ret" /\ AtoiClass(a_s) \in AtoiFailures) => (a_ret = 0 /\ ~a_written)
    /\ (a_pc = "ret" /\ AtoiClass(a_s) = "ok") => (a_ret = 1 /\ a_written)

\* an overflow failure is returned after an invalid-character failure
AtoiTwoFailuresSeen ==
    /\ a_pc = "ret" /\ a_ret = 0
    /\ AtoiClass(a_s) = "overflow"
    /\ a_prev.cls = "invalid" /\ a_prev.ret = 0

\* C8: safe_atoi fails on empty input, on a non-digit anywhere after the
\* optional '-', and on a magnitude above 2147483647; the accumulator stays in
\* 0..2147483647 at every step because the range is tested before each
\* multiply-add; the output is not stored on failure.
AtoiRangeTestedFirst ==
    /\ a_val >= 0 /\ a_val <= INT_MAX
    /\ a_pc = "mul" => a_val * 10 <= INT_MAX - a_d
    /\ (a_pc = "ret" /\ (~IsDecimal(a_s) \/ ~MagnitudeAtMost(Body(a_s), IntMaxDigits)))
          => (a_ret = 0 /\ ~a_written)

\* the call on 2147483648 has returned 0 with the accumulator at 214748364
AtoiOverflowRejected ==
    /\ a_pc = "ret" /\ a_ret = 0 /\ ~a_written
    /\ a_s = IntMinDigits
    /\ a_val = INT_MAX \div 10

-----------------------------------------------------------------------------
(* Inputs of the text primitives *)

\* A a B b @
AsciiChars == {65, 97, 66, 98, 64}

\* one well-formed sequence of each length: a, U+00E3, U+2026, U+1F600
Utf8Units == {<<97>>, <<195, 163>>, <<226, 128, 166>>, <<240, 159, 152, 128>>}

RECURSIVE Flatten(_)
Flatten(us) == IF us = <<>> THEN <<>> ELSE us[1] \o Flatten(Tail(us))

-----------------------------------------------------------------------------
(* Calls of the text primitives *)

TextCallStartsWith ==
    /\ UNCHANGED <<atoi_vars, print_vars, row_vars, search_vars, prog_vars>>
    /\ t_pc = "idle"
    /\ \E text \in SeqsUpTo(AsciiChars, MaxTextLen), prefix \in SeqsUpTo(AsciiChars, MaxPrefixLen) :
          /\ t_s' = text
          /\ t_prefix' = prefix
          /\ t_bool' = str_starts_with_case_insensitive(text, prefix)
    /\ t_fn' = "str_starts_with_case_insensitive"
    /\ t_pc' = "done"
    /\ UNCHANGED <<t_units, t_width, t_int, t_out>>

TextCallUtf8Len ==
    /\ UNCHANGED <<atoi_vars, print_vars, row_vars, search_vars, prog_vars>>
    /\ t_pc = "idle"
    /\ \E us \in SeqsUpTo(Utf8Units, MaxCps) :
          /\ t_units' = us
          /\ t_s' = Flatten(us)
          /\ t_int' = utf8_len(Flatten(us))
    /\ t_fn' = "utf8_len"
    /\ t_pc' = "done"
    /\ UNCHANGED <<t_prefix, t_width, t_bool, t_out>>

TextCallPrint ==
    /\ UNCHANGED <<atoi_vars, print_vars, row_vars, search_vars, prog_vars>>
    /\ t_pc = "idle"
    /\ \E us \in SeqsUpTo(Utf8Units, MaxCps), width \in 0..MaxWidth :
          /\ t_units' = us
          /\ t_s' = Flatten(us)
          /\ t_width' = width
          /\ t_out' = print_utf8_padded(Flatten(us), width)
    /\ t_fn' = "print_utf8_padded"
    /\ t_pc' = "done"
    /\ UNCHANGED <<t_prefix, t_bool, t_int>>

TextReturn ==
    /\ UNCHANGED <<atoi_vars, print_vars, row_vars, search_vars, prog_vars>>
    /\ t_pc = "done"
    /\ t_pc' = "idle" /\ t_fn' = "none" /\ t_units' = <<>> /\ t_s' = <<>>
    /\ t_prefix' = <<>> /\ t_width' = 0 /\ t_bool' = FALSE /\ t_int' = 0 /\ t_out' = <<>>

TextNext == TextCallStartsWith \/ TextCallUtf8Len \/ TextCallPrint \/ TextReturn

SpecText == Init /\ [][TextNext]_vars

-----------------------------------------------------------------------------
(* Claims about the text primitives, checked under SpecText *)

LowerStr(s) == [i \in 1..Len(s) |-> IF s[i] \in 65..90 THEN s[i] + 32 ELSE s[i]]

HasPrefix(a, b) == Len(b) <= Len(a) /\ SubSeq(a, 1, Len(b)) = b

\* C2: for every s and every width >= 0 the text print_utf8_padded emits has a
\* code-point length of exactly width.
PaddedOutputHasWidth ==
    (t_pc = "done" /\ t_fn = "print_utf8_padded") => utf8_len(t_out) = t_width

\* C9: for ASCII text and prefix, str_starts_with_case_insensitive is true
\* exactly when the lowercased text has the lowercased prefix as a literal
\* prefix; an empty prefix always matches, a prefix longer than the text never.
StartsWithIsLowercasedPrefix ==
    (t_pc = "done" /\ t_fn = "str_starts_with_case_insensitive") =>
        /\ t_bool <=> HasPrefix(LowerStr(t_s), LowerStr(t_prefix))
        /\ t_prefix = <<>> => t_bool
        /\ Len(t_prefix) > Len(t_s) => ~t_bool

\* the text "aB@" was matched by the prefix "Ab"
StartsWithMixedCaseMatched ==
    /\ t_pc = "done" /\ t_fn = "str_starts_with_case_insensitive"
    /\ t_s = <<97, 66, 64>> /\ t_prefix = <<65, 98>> /\ t_bool

\* the number of units of us that are n bytes long
UnitsOfLen(us, n) == Cardinality({i \in 1..Len(us) : Len(us[i]) = n})

-----------------------------------------------------------------------------
(* print_utf8_padded step by step, utils.c:405-442 with the loops of        *)
(* utf8_len (utils.c:322-331) and utf8_copy_n_cps (utils.c:359-373)         *)

\* the most code points before the cut sequence of a short string
MaxCutCps == 1

\* the bytes read after the terminator of a string that the loop goes on
\* over, at most
MaxPast == 2

\* lead bytes of sequences of two, three and four bytes
CutLeads == {195, 226, 240}

\* what memory after the terminator of a string can hold: a NUL, an ASCII
\* byte, a lead byte
PastBytes == {0, 97, 195}

\* the name field "aa...a" (62 times) followed by U+00E3, 64 bytes, as
\* parse_time_linha stores it: cut to 63 bytes, the last one the lead byte
CutName == CopyName([i \in 1..(MAX_NOME_TIME - 2) |-> 97] \o <<195, 163>>)

\* a long string: LongCps times the code point u
LongUnits(u) == [i \in 1..LongCps |-> u]

LongString(u) == [i \in 1..(LongCps * Len(u)) |-> u[((i - 1) % Len(u)) + 1]]

\* utils.c:429-430  int keep = width - 1; if (keep < 0) keep = 0;
Keep(width) == IF width - 1 < 0 THEN 0 ELSE width - 1

\* the call, and utils.c:318-319: count = 0, p = s
PrintEnter(us, s, width) ==
    /\ UNCHANGED <<atoi_vars, text_vars, row_vars, search_vars, prog_vars>>
    /\ u_pc = "idle"
    /\ u_units' = us /\ u_s' = s /\ u_width' = width
    /\ u_p' = 1 /\ u_vis' = 0
    /\ u_pc' = "len"
    /\ UNCHANGED <<u_buf, u_cps, u_out>>

\* a call with a short string
PrintCallShort ==
    /\ u_pc = "idle"
    /\ \E us \in SeqsUpTo(Utf8Units, MaxCps), width \in 0..MaxWidth :
          PrintEnter(us, Flatten(us), width)

\* a call with a long string
PrintCallLong ==
    /\ u_pc = "idle"
    /\ \E u \in Utf8Units, width \in {1, LongCps - 1} :
          PrintEnter(LongUnits(u), LongString(u), width)

\* a call with a string whose last sequence is cut after its lead byte
PrintCallCut ==
    /\ u_pc = "idle"
    /\ \E us \in SeqsUpTo(Utf8Units, MaxCutCps), lead \in CutLeads, width \in 0..MaxWidth :
          PrintEnter(Append(us, <<lead>>), Flatten(us) \o <<lead>>, width)

\* a call with a team name as parse_time_linha leaves it when the 63rd and
\* 64th bytes of the name field are a two-byte sequence (bd_times.c:175-176)
PrintCallCutName ==
    /\ u_pc = "idle"
    /\ \E width \in {1, MAX_NOME_TIME} :
          PrintEnter([i \in 1..(MAX_NOME_TIME - 1) |-> <<CutName[i]>>], CutName, width)

\* what a read of s[p] can give: the byte of the string, its terminating NUL,
\* or, after the terminator, whatever the memory holds
ReadSet(str, p) == IF p <= Len(str) + 1 THEN {Byte(str, p)} ELSE PastBytes

\* what the reads of s[p], ..., s[p+n-1] can give
ReadSeqs(str, p, n) ==
    {bs \in [1..n -> PastBytes \cup {Byte(str, p + i - 1) : i \in 1..n}] :
        \A i \in 1..n : bs[i] \in ReadSet(str, p + i - 1)}

\* utils.c:322-331: one iteration of the loop of utf8_len
PrintLenStep ==
    /\ UNCHANGED <<atoi_vars, text_vars, row_vars, search_vars, prog_vars>>
    /\ u_pc = "len"
    /\ u_p <= Len(u_s)
    /\ u_p' = u_p + utf8_cp_bytes(u_s[u_p])
    /\ u_vis' = u_vis + 1
    /\ UNCHANGED <<u_pc, u_units, u_s, u_width, u_buf, u_cps, u_out>>

\* utils.c:322-331: an iteration of the loop of utf8_len with p after the
\* terminator of s, where *p is not 0
PrintLenPast ==
    /\ UNCHANGED <<atoi_vars, text_vars, row_vars, search_vars, prog_vars>>
    /\ u_pc = "len"
    /\ u_p > Len(u_s) + 1 /\ u_p <= Len(u_s) + 1 + MaxPast
    /\ \E c \in ReadSet(u_s, u_p) \ {0} : u_p' = u_p + utf8_cp_bytes(c)
    /\ u_vis' = u_vis + 1
    /\ UNCHANGED <<u_pc, u_units, u_s, u_width, u_buf, u_cps, u_out>>

\* utils.c:322: the loop of utf8_len ends, *p is 0
LenLoopEnds == 0 \in ReadSet(u_s, u_p)

\* utils.c:412-415: vis == width, s printed as it is
PrintExact ==
    /\ UNCHANGED <<atoi_vars, text_vars, row_vars, search_vars, prog_vars>>
    /\ u_pc = "len"
    /\ u_p > Len(u_s) /\ LenLoopEnds
    /\ u_vis = u_width
    /\ u_out' = u_s
    /\ u_pc' = "done"
    /\ UNCHANGED <<u_units, u_s, u_width, u_p, u_vis, u_buf, u_cps>>

\* utils.c:418-424: vis < width, s then width - vis spaces
PrintPad ==
    /\ UNCHANGED <<atoi_vars, text_vars, row_vars, search_vars, prog_vars>>
    /\ u_pc = "len"
    /\ u_p > Len(u_s) /\ LenLoopEnds
    /\ u_vis < u_width
    /\ u_out' = u_s \o Spaces(u_width - u_vis)
    /\ u_pc' = "done"
    /\ UNCHANGED <<u_units, u_s, u_width, u_p, u_vis, u_buf, u_cps>>

\* utils.c:428-434 and 354-356: vis > width, utf8_copy_n_cps(buf, 256, s, keep) entered
PrintTruncate ==
    /\ UNCHANGED <<atoi_vars, text_vars, row_vars, search_vars, prog_vars>>
    /\ u_pc = "len"
    /\ u_p > Len(u_s) /\ LenLoopEnds
    /\ u_vis > u_width
    /\ u_p' = 1 /\ u_buf' = <<>> /\ u_cps' = 0
    /\ u_pc' = "copy"
    /\ UNCHANGED <<u_units, u_s, u_width, u_vis, u_out>>

\* utils.c:359-364: the loop goes on and the next code point fits
CopyGoesOn(c) ==
    /\ c # 0
    /\ u_cps < Keep(u_width)
    /\ ~(Len(u_buf) + utf8_cp_bytes(c) >= PRINT_BUF_CAP)

\* utils.c:359-373: one iteration of the loop of utf8_copy_n_cps
CopyStep ==
    /\ UNCHANGED <<atoi_vars, text_vars, row_vars, search_vars, prog_vars>>
    /\ u_pc = "copy"
    /\ \E c \in ReadSet(u_s, u_p) :
          /\ CopyGoesOn(c)
          /\ LET n == utf8_cp_bytes(c) IN
                /\ \E bs \in ReadSeqs(u_s, u_p, n) : bs[1] = c /\ u_buf' = u_buf \o bs
                /\ u_p' = u_p + n
    /\ u_cps' = u_cps + 1
    /\ UNCHANGED <<u_pc, u_units, u_s, u_width, u_vis, u_out>>

\* utils.c:376-380 and 435-441: the loop left, buf terminated, buf and the
\* ellipsis printed
CopyEnd ==
    /\ UNCHANGED <<atoi_vars, text_vars, row_vars, search_vars, prog_vars>>
    /\ u_pc = "copy"
    /\ \E c \in ReadSet(u_s, u_p) : ~CopyGoesOn(c)
    /\ u_out' = CStr(u_buf) \o Ellipsis
    /\ u_pc' = "done"
    /\ UNCHANGED <<u_units, u_s, u_width, u_p, u_vis, u_buf, u_cps>>

\* the caller goes on
PrintReturn ==
    /\ UNCHANGED <<atoi_vars, text_vars, row_vars, search_vars, prog_vars>>
    /\ u_pc = "done"
    /\ u_pc' = "idle" /\ u_units' = <<>> /\ u_s' = <<>> /\ u_width' = 0 /\ u_p' = 1
    /\ u_vis' = 0 /\ u_buf' = <<>> /\ u_cps' = 0 /\ u_out' = <<>>

PrintNext ==
    \/ PrintCallShort \/ PrintCallLong \/ PrintLenStep \/ PrintExact \/ PrintPad
    \/ PrintTruncate \/ CopyStep \/ CopyEnd \/ PrintReturn
    \/ PrintCallCut \/ PrintCallCutName \/ PrintLenPast

SpecPrint == Init /\ [][PrintNext]_vars

-----------------------------------------------------------------------------
(* Claims about print_utf8_padded, checked under SpecPrint *)

RECURSIVE BytesOfUnits(_, _, _)
\* the number of bytes the code points a..b of us take
BytesOfUnits(us, a, b) ==
    IF a > b THEN 0
    ELSE IF a = b THEN Len(us[a])
    ELSE BytesOfUnits(us, a, (a + b) \div 2) + BytesOfUnits(us, ((a + b) \div 2) + 1, b)

\* C11: when s has more than width code points (width >= 1), print_utf8_padded
\* emits the first width-1 code points of s, each whole, followed by exactly
\* one ellipsis U+2026.
PrintTruncatesToWidthMinusOne ==
    (u_pc = "done" /\ u_width >= 1 /\ Len(u_units) > u_width)
        => u_out = SubSeq(u_s, 1, BytesOfUnits(u_units, 1, u_width - 1)) \o Ellipsis

\* C28: utf8_len and utf8_copy_n_cps read no byte after the terminator of
\* their string: the read position p, advanced by the length the lead byte
\* announces, never passes the position of the NUL.
Utf8ReadsStayInsideString ==
    (u_pc \in {"len", "copy"}) => u_p <= Len(u_s) + 1

-----------------------------------------------------------------------------
(* Calls of the row parsers, bd_times.c:152-179 and bd_partidas.c:22-49 *)

\* the fields of some team rows: 0,Fla  12,São Paulo  -1,Rio  x,Bad  7
TeamRows ==
    { <<<<48>>, <<70, 108, 97>>>>,
      <<<<49, 50>>, <<83, 195, 163, 111, 32, 80, 97, 117, 108, 111>>>>,
      <<<<45, 49>>, <<82, 105, 111>>>>,
      <<<<120>>, <<66, 97, 100>>>>,
      <<<<55>>>> }

\* the fields of some match rows: 0,0,1,2,1  3,1,0,-1,0  4,0,1,2  1,a,0,1,1
MatchRows ==
    { <<<<48>>, <<48>>, <<49>>, <<50>>, <<49>>>>,
      <<<<51>>, <<49>>, <<48>>, <<45, 49>>, <<48>>>>,
      <<<<52>>, <<48>>, <<49>>, <<50>>>>,
      <<<<49>>, <<97>>, <<48>>, <<49>>, <<49>>>> }

\* space and tab
Blanks == {32, 9}

\* nothing, LF, CRLF
LineEndings == {<<>>, <<10>>, <<13, 10>>}

RECURSIVE JoinComma(_)
JoinComma(fs) ==
    IF fs = <<>> THEN <<>>
    ELSE IF Len(fs) = 1 THEN fs[1]
    ELSE fs[1] \o <<44>> \o JoinComma(Tail(fs))

\* the row with field k padded and the line ending eol
RowLine(fs, k, pre, post, eol) ==
    JoinComma([i \in 1..Len(fs) |-> IF i = k THEN pre \o fs[i] \o post ELSE fs[i]]) \o eol

\* the call made with a row built from fs
RowCall(fs) ==
    /\ r_fn = "none"
    /\ r_fields' = fs
    /\ \E k \in 1..Len(fs), pre \in SeqsUpTo(Blanks, MaxPad),
          post \in SeqsUpTo(Blanks, MaxPad), eol \in LineEndings :
          /\ r_k' = k /\ r_pre' = pre /\ r_post' = post /\ r_eol' = eol
          /\ r_line' = RowLine(fs, k, pre, post, eol)

RowParseTeam ==
    /\ UNCHANGED <<atoi_vars, text_vars, print_vars, search_vars, prog_vars>>
    /\ \E fs \in TeamRows : RowCall(fs)
    /\ r_fn' = "parse_time_linha"
    /\ r_res' = parse_time_linha(r_line')

RowParseMatch ==
    /\ UNCHANGED <<atoi_vars, text_vars, print_vars, search_vars, prog_vars>>
    /\ \E fs \in MatchRows : RowCall(fs)
    /\ r_fn' = "parse_partida_linha"
    /\ r_res' = parse_partida_linha(r_line')

RowReturn ==
    /\ UNCHANGED <<atoi_vars, text_vars, print_vars, search_vars, prog_vars>>
    /\ r_fn # "none"
    /\ r_fn' = "none" /\ r_fields' = <<>> /\ r_k' = 0 /\ r_pre' = <<>> /\ r_post' = <<>>
    /\ r_eol' = <<>> /\ r_line' = <<>> /\ r_res' = [ok |-> FALSE]

RowNext == RowParseTeam \/ RowParseMatch \/ RowReturn

SpecRows == Init /\ [][RowNext]_vars

-----------------------------------------------------------------------------
(* Claims about the row parsers, checked under SpecRows *)

\* what the parser called returns for a line
RowParse(line) ==
    IF r_fn = "parse_time_linha" THEN parse_time_linha(line) ELSE parse_partida_linha(line)

\* C12: a team row or a match row with spaces or tabs before or after any
\* field (the id field of a team row included) parses to the same values as
\* the unpadded row.
PaddedRowParsesAsUnpadded ==
    (r_fn # "none") =>
        r_res = RowParse(RowLine(r_fields, r_k, <<>>, <<>>, r_eol))

\* C13: a team row or a match row ended by LF, by CRLF or by nothing parses
\* with the same outcome and the same values, and no CR or LF byte ends up in
\* a team name.
LineEndingDoesNotMatter ==
    (r_fn # "none") =>
        /\ r_res = RowParse(RowLine(r_fields, r_k, r_pre, r_post, <<>>))
        /\ (r_fn = "parse_time_linha" /\ r_res.ok) =>
              \A i \in 1..Len(r_res.nome) : r_res.nome[i] \notin {10, 13}

\* the team row "12,São Paulo" ended by CRLF was parsed to id 12 and the name
TeamRowWithCrLfParsed ==
    /\ r_fn = "parse_time_linha" /\ r_eol = <<13, 10>>
    /\ r_res.ok /\ r_res.id = 12
    /\ r_res.nome = <<83, 195, 163, 111, 32, 80, 97, 117, 108, 111>>

-----------------------------------------------------------------------------
(* Calls of bdtimes_buscar_por_prefixo, bd_times.c:303-323 *)

\* Fla  FLU  fl  San
SearchNames == {<<70, 108, 97>>, <<70, 76, 85>>, <<102, 108>>, <<83, 97, 110>>}

\* f  FL  fla  s  x
SearchPrefixes == {<<102>>, <<70, 76>>, <<102, 108, 97>>, <<115>>, <<120>>}

SearchCall ==
    /\ UNCHANGED <<atoi_vars, text_vars, print_vars, row_vars, prog_vars>>
    /\ q_pc = "idle"
    /\ \E nomes \in SeqsUpTo(SearchNames, MaxSearchTeams), prefixo \in SearchPrefixes,
          max_indices \in 0..MaxSearchTeams :
          LET r == bdtimes_buscar_por_prefixo(nomes, prefixo, NothingWritten, max_indices) IN
          /\ q_bd' = nomes /\ q_prefixo' = prefixo /\ q_max' = max_indices
          /\ q_found' = r.found /\ q_indices' = r.indices
    /\ q_pc' = "done"

SearchReturn ==
    /\ UNCHANGED <<atoi_vars, text_vars, print_vars, row_vars, prog_vars>>
    /\ q_pc = "done"
    /\ q_pc' = "idle" /\ q_bd' = <<>> /\ q_prefixo' = <<>> /\ q_max' = 0 /\ q_found' = 0
    /\ q_indices' = NothingWritten

SearchNext == SearchCall \/ SearchReturn

SpecSearch == Init /\ [][SearchNext]_vars

-----------------------------------------------------------------------------
(* Claims about bdtimes_buscar_por_prefixo, checked under SpecSearch *)

\* the registry positions (from 0) of the teams whose lowercased name begins
\* with the lowercased prefix
SearchMatches == {i \in 0..(Len(q_bd) - 1) : HasPrefix(LowerStr(q_bd[i + 1]), LowerStr(q_prefixo))}

-----------------------------------------------------------------------------
(* The CSV files *)

\* "ID,Nome\n"
TeamHeaderLine == <<73, 68, 44, 78, 111, 109, 101, 10>>

\* the data lines a team file is made of:
\*   "0,Fla\n"  "1,São\r\n"  " 0, Flu \n"  "2,Internacional\n"
\*   "-1,Rio\n"  "10000,Big\n"  "x,Bad\n"
TeamLines ==
    { <<48, 44, 70, 108, 97, 10>>,
      <<49, 44, 83, 195, 163, 111, 13, 10>>,
      <<32, 48, 44, 32, 70, 108, 117, 32, 10>>,
      <<50, 44, 73, 110, 116, 101, 114, 110, 97, 99, 105, 111, 110, 97, 108, 10>>,
      <<45, 49, 44, 82, 105, 111, 10>>,
      <<49, 48, 48, 48, 48, 44, 66, 105, 103, 10>>,
      <<120, 44, 66, 97, 100, 10>> }

\* "ID,Time1ID,Time2ID,GolsTime1,GolsTime2\n"
MatchHeaderLine == <<73, 68, 44, 84, 105, 109, 101, 49, 73, 68, 44, 84, 105, 109, 101, 50, 73, 68, 44, 71, 111, 108, 115, 84, 105, 109, 101, 49, 44, 71, 111, 108, 115, 84, 105, 109, 101, 50, 10>>

\* the data lines a match file is made of:
\*   "0,0,1,2,1\n"  "1,1,0,1,1\r\n"  "2,0,99,3,0\n"  "3,1,0,-1,0\n"
\*   "4,0,1,2\n"  "5,0,1,2,1,7\n"
MatchLines ==
    { <<48, 44, 48, 44, 49, 44, 50, 44, 49, 10>>,
      <<49, 44, 49, 44, 48, 44, 49, 44, 49, 13, 10>>,
      <<50, 44, 48, 44, 57, 57, 44, 51, 44, 48, 10>>,
      <<51, 44, 49, 44, 48, 44, 45, 49, 44, 48, 10>>,
      <<52, 44, 48, 44, 49, 44, 50, 10>>,
      <<53, 44, 48, 44, 49, 44, 50, 44, 49, 44, 55, 10>> }

TEAM_BUF == 256
MATCH_BUF == 512

\* what the next fgets can return bytes of: the rest of a line longer than the
\* buffer, else any further line while the file has more
NextLines(pool, max) ==
    IF f_rest # <<>> THEN {f_rest}
    ELSE IF f_nolf \/ f_read >= max THEN {}
    ELSE pool

\* the bytes one fgets(buf, cap, f) takes of line: at most cap-1
Chunk(line, cap) == SubSeq(line, 1, IF Len(line) < cap - 1 THEN Len(line) ELSE cap - 1)

\* fgets(buf, cap, f) on a file whose next bytes are line
FGets(line, cap) ==
    /\ buf' = Chunk(line, cap)
    /\ f_rest' = SubSeq(line, Len(Chunk(line, cap)) + 1, Len(line))
    /\ f_read' = IF f_rest = <<>> /\ pc \in {"t_loop", "m_loop"} THEN f_read + 1 ELSE f_read
    /\ f_nolf' = (line[Len(line)] # 10)

\* fopen succeeded
FOpen ==
    /\ f_open' = TRUE /\ f_closes' = 0 /\ f_read' = 0 /\ f_nolf' = FALSE
    /\ f_rest' = <<>> /\ buf' = <<>> /\ count' = 0

\* a return that leaves the file open
ReturnWithoutFClose ==
    /\ UNCHANGED <<f_open, f_closes>>
    /\ buf' = <<>> /\ count' = 0 /\ f_rest' = <<>> /\ f_nolf' = FALSE /\ f_read' = 0

\* fclose(f) and the return: the locals of the load are gone
FCloseReturn ==
    /\ f_open' = FALSE /\ f_closes' = f_closes + 1
    /\ buf' = <<>> /\ count' = 0 /\ f_rest' = <<>> /\ f_nolf' = FALSE /\ f_read' = 0

-----------------------------------------------------------------------------
(* main and the two loads, main.c:195-282, bd_times.c:200-260,
   bd_partidas.c:51-86 *)

\* a main that ends with code 0 when no team was loaded
MainAfterTeamsExitZero(ret) ==
    IF ret = 0 THEN pc' = "exit" /\ exit_code' = 0
    ELSE pc' = "m_open" /\ UNCHANGED exit_code

\* main.c:224-228: main with the value bdtimes_carregar_csv returned
MainAfterTeams(ret) ==
    IF ret = 0 THEN pc' = "exit" /\ exit_code' = 1
    ELSE pc' = "m_open" /\ UNCHANGED exit_code

\* bd_times.c:202-206
TeamsOpenFail ==
    /\ UNCHANGED <<atoi_vars, text_vars, print_vars, row_vars, search_vars, fold_vars, order_vars, menu_vars>>
    /\ pc = "t_open"
    /\ diag' = "open_failed"
    /\ MainAfterTeams(0)
    /\ UNCHANGED <<bdt, bdp, load_vars, scr, fil>>

\* bd_times.c:202
TeamsOpen ==
    /\ UNCHANGED <<atoi_vars, text_vars, print_vars, row_vars, search_vars, fold_vars, order_vars, menu_vars>>
    /\ pc = "t_open"
    /\ FOpen
    /\ pc' = "t_header"
    /\ UNCHANGED <<bdt, bdp, diag, scr, fil, exit_code>>

\* bd_times.c:211-215: no header line
TeamsHeaderEOF ==
    /\ UNCHANGED <<atoi_vars, text_vars, print_vars, row_vars, search_vars, fold_vars, order_vars, menu_vars>>
    /\ pc = "t_header"
    /\ FCloseReturn
    /\ diag' = "empty"
    /\ MainAfterTeams(0)
    /\ UNCHANGED <<bdt, bdp, scr, fil>>

\* bd_times.c:211-217: the header line is read and dropped
TeamsHeader ==
    /\ UNCHANGED <<atoi_vars, text_vars, print_vars, row_vars, search_vars, fold_vars, order_vars, menu_vars>>
    /\ pc = "t_header"
    /\ FGets(TeamHeaderLine, TEAM_BUF)
    /\ count' = 0
    /\ pc' = "t_loop"
    /\ UNCHANGED <<bdt, bdp, diag, f_open, f_closes, scr, fil, exit_code>>

\* a variant of the capacity test that lets one more entry in
RegistryFullOffByOne(n, cap) == n > cap

\* bd_times.c:222 and bd_partidas.c:68: if (bd->n >= MAX) break;
RegistryFull(n, cap) == n >= cap

\* a skipped row counted as loaded
TeamsRowSkippedButCounted == diag' = "parse_failed" /\ count' = count + 1 /\ UNCHANGED bdt

\* bd_times.c:235-239: the row does not parse; a warning, and continue
TeamsRowSkipped == diag' = "parse_failed" /\ UNCHANGED <<bdt, count>>

\* bd_times.c:220-254: one turn of the loop with the line fgets reads, and
\* 256-259 on the capacity break; Returned is the caller's step on the count returned
TeamsTurn(line, Returned) ==
    IF RegistryFull(Len(bdt), MAX_TIMES)
    THEN /\ diag' = "capacity"
         /\ FCloseReturn
         /\ Returned
         /\ UNCHANGED bdt
    ELSE /\ FGets(line, TEAM_BUF)
         /\ LET r == parse_time_linha(Chunk(line, TEAM_BUF))
            IN  IF ~r.ok
                THEN TeamsRowSkipped
                ELSE /\ bdt' = Append(bdt, time_zerar_stats(r.id, r.nome))
                     /\ count' = count + 1
                     /\ diag' = "loaded"
         /\ UNCHANGED <<pc, exit_code, f_open, f_closes>>

\* the loop of bdtimes_carregar_csv called by main
TeamsLine ==
    /\ UNCHANGED <<atoi_vars, text_vars, print_vars, row_vars, search_vars, fold_vars, order_vars, menu_vars>>
    /\ pc = "t_loop"
    /\ \E line \in NextLines(TeamLines, MaxTeamLines) : TeamsTurn(line, MainAfterTeams(count))
    /\ UNCHANGED <<bdp, scr, fil>>

\* bd_times.c:220 and 256-259: fgets finds the end of the file
TeamsEOF ==
    /\ UNCHANGED <<atoi_vars, text_vars, print_vars, row_vars, search_vars, fold_vars, order_vars, menu_vars>>
    /\ pc = "t_loop"
    /\ f_rest = <<>>
    /\ FCloseReturn
    /\ diag' = "none"
    /\ MainAfterTeams(count)
    /\ UNCHANGED <<bdt, bdp, scr, fil>>

\* bd_partidas.c:52-56, main.c:233-237: the program goes on without matches
MatchesOpenFail ==
    /\ UNCHANGED <<atoi_vars, text_vars, print_vars, row_vars, search_vars, fold_vars, order_vars, menu_vars>>
    /\ pc = "m_open"
    /\ diag' = "open_failed"
    /\ pc' = "fold"
    /\ UNCHANGED <<bdt, bdp, load_vars, scr, fil, exit_code>>

\* bd_partidas.c:52
MatchesOpen ==
    /\ UNCHANGED <<atoi_vars, text_vars, print_vars, row_vars, search_vars, fold_vars, order_vars, menu_vars>>
    /\ pc = "m_open"
    /\ FOpen
    /\ pc' = "m_header"
    /\ UNCHANGED <<bdt, bdp, diag, scr, fil, exit_code>>

\* bd_partidas.c:60-64
MatchesHeaderEOF ==
    /\ UNCHANGED <<atoi_vars, text_vars, print_vars, row_vars, search_vars, fold_vars, order_vars, menu_vars>>
    /\ pc = "m_header"
    /\ FCloseReturn
    /\ diag' = "empty"
    /\ pc' = "fold"
    /\ UNCHANGED <<bdt, bdp, scr, fil, exit_code>>

\* bd_partidas.c:60-66
MatchesHeader ==
    /\ UNCHANGED <<atoi_vars, text_vars, print_vars, row_vars, search_vars, fold_vars, order_vars, menu_vars>>
    /\ pc = "m_header"
    /\ FGets(MatchHeaderLine, MATCH_BUF)
    /\ count' = 0
    /\ pc' = "m_loop"
    /\ UNCHANGED <<bdt, bdp, diag, f_open, f_closes, scr, fil, exit_code>>

\* bd_partidas.c:75-78: the row does not parse; a warning, and continue
MatchesRowSkipped == diag' = "parse_failed" /\ UNCHANGED <<bdp, count>>

\* bd_partidas.c:67-83: one turn of the loop with the line fgets reads, and
\* 84-85 on the capacity break
MatchesTurn(line) ==
    IF RegistryFull(Len(bdp), MAX_PARTIDAS)
    THEN /\ diag' = "capacity"
         /\ FCloseReturn
         /\ pc' = "fold"
         /\ UNCHANGED bdp
    ELSE /\ FGets(line, MATCH_BUF)
         /\ LET r == parse_partida_linha(Chunk(line, MATCH_BUF))
            IN  IF ~r.ok
                THEN MatchesRowSkipped
                ELSE /\ bdp' = Append(bdp, r.p)
                     /\ count' = count + 1
                     /\ diag' = "loaded"
         /\ UNCHANGED <<pc, f_open, f_closes>>

\* the loop of bdpartidas_carregar_csv called by main
MatchesLine ==
    /\ UNCHANGED <<atoi_vars, text_vars, print_vars, row_vars, search_vars, fold_vars, order_vars, menu_vars>>
    /\ pc = "m_loop"
    /\ \E line \in NextLines(MatchLines, MaxMatchLines) : MatchesTurn(line)
    /\ UNCHANGED <<bdt, scr, fil, exit_code>>

\* bd_partidas.c:67 and 84-85
MatchesEOF ==
    /\ UNCHANGED <<atoi_vars, text_vars, print_vars, row_vars, search_vars, fold_vars, order_vars, menu_vars>>
    /\ pc = "m_loop"
    /\ f_rest = <<>>
    /\ FCloseReturn
    /\ diag' = "none"
    /\ pc' = "fold"
    /\ UNCHANGED <<bdt, bdp, scr, fil, exit_code>>

\* main.c:241, bd_partidas.c:89-101
Fold ==
    /\ UNCHANGED <<atoi_vars, text_vars, print_vars, row_vars, search_vars, fold_vars, order_vars, menu_vars>>
    /\ pc = "fold"
    /\ bdt' = bdpartidas_aplicar_em_bdtimes(bdp, bdt)
    /\ diag' = IF \E i \in 1..Len(bdp) :
                     \/ bdtimes_buscar_por_id(bdt, bdp[i].time1) = 0
                     \/ bdtimes_buscar_por_id(bdt, bdp[i].time2) = 0
               THEN "unknown_team" ELSE "none"
    /\ pc' = "menu"
    /\ UNCHANGED <<bdp, load_vars, scr, fil, exit_code>>

\* main.c:266-270, bd_times.c:450-550: option 6; the export file may fail to open
MenuStandings ==
    /\ UNCHANGED <<atoi_vars, text_vars, print_vars, row_vars, search_vars, fold_vars, order_vars, menu_vars>>
    /\ pc = "menu"
    /\ scr' = ScreenTable(bdt)
    /\ \E opened \in BOOLEAN :
          IF opened THEN fil' = FileTable(bdt) /\ diag' = "exported"
          ELSE diag' = "export_failed" /\ UNCHANGED fil
    /\ UNCHANGED <<pc, bdt, bdp, load_vars, exit_code>>

\* main.c:249-252 and 280-281: Q, q or the end of the input
MenuQuit ==
    /\ UNCHANGED <<atoi_vars, text_vars, print_vars, row_vars, search_vars, fold_vars, order_vars, menu_vars>>
    /\ pc = "menu"
    /\ pc' = "exit"
    /\ exit_code' = 0
    /\ UNCHANGED <<bdt, bdp, diag, load_vars, scr, fil>>

Next ==
    \/ TeamsOpenFail \/ TeamsOpen \/ TeamsHeaderEOF \/ TeamsHeader \/ TeamsLine \/ TeamsEOF
    \/ MatchesOpenFail \/ MatchesOpen \/ MatchesHeaderEOF \/ MatchesHeader
    \/ MatchesLine \/ MatchesEOF
    \/ Fold \/ MenuStandings \/ MenuQuit

Spec == Init /\ [][Next]_vars

-----------------------------------------------------------------------------
(* The loads up to the capacity of the registries: a caller that loads files *)
(* into the same registries again and again, bd_times.c:200-260 and          *)
(* bd_partidas.c:51-86                                                        *)

\* data line n of a team file: "<n>,T\n"
CapTeamLine(n) == FormatD(n) \o <<44, 84, 10>>

\* data line n of a match file: "<n>,0,1,1,0\n"
CapMatchLine(n) == FormatD(n) \o <<44, 48, 44, 49, 44, 49, 44, 48, 10>>

\* the numbers of data lines a team file and a match file can have
CapTeamFiles == {CapTeamLines, 2 * CapTeamLines + 2}

CapMatchFiles == {CapMatchLines, 2 * CapMatchLines + 2}

\* this caller does not look at the value returned
CallerAfterTeams(ret) == pc' = "t_done" /\ UNCHANGED exit_code

\* the loop of bdtimes_carregar_csv: a further line is read
CapTeamsLine ==
    /\ UNCHANGED <<atoi_vars, text_vars, print_vars, row_vars, search_vars, fold_vars, order_vars, menu_vars>>
    /\ pc = "t_loop"
    /\ f_read < 2 * CapTeamLines + 2
    /\ TeamsTurn(CapTeamLine(f_read), CallerAfterTeams(count))
    /\ UNCHANGED <<bdp, scr, fil>>

\* bd_times.c:220 and 256-259: the file ends after its last line
CapTeamsEOF ==
    /\ UNCHANGED <<atoi_vars, text_vars, print_vars, row_vars, search_vars, fold_vars, order_vars, menu_vars>>
    /\ pc = "t_loop"
    /\ f_read \in CapTeamFiles
    /\ FCloseReturn
    /\ diag' = "none"
    /\ CallerAfterTeams(count)
    /\ UNCHANGED <<bdt, bdp, scr, fil>>

\* "x,T\n": a data line of a team file that does not parse
CapBadTeamLine == <<120, 44, 84, 10>>

\* "x,0,1,1,0\n": a data line of a match file that does not parse
CapBadMatchLine == <<120, 44, 48, 44, 49, 44, 49, 44, 48, 10>>

\* bd_times.c:202-206: the team file does not open
CapTeamsOpenFail ==
    /\ UNCHANGED <<atoi_vars, text_vars, print_vars, row_vars, search_vars, fold_vars, order_vars, menu_vars>>
    /\ pc = "t_open"
    /\ diag' = "open_failed"
    /\ CallerAfterTeams(0)
    /\ UNCHANGED <<bdt, bdp, load_vars, scr, fil>>

\* bd_times.c:211-215: the team file has no header line
CapTeamsHeaderEOF ==
    /\ UNCHANGED <<atoi_vars, text_vars, print_vars, row_vars, search_vars, fold_vars, order_vars, menu_vars>>
    /\ pc = "t_header"
    /\ FCloseReturn
    /\ diag' = "empty"
    /\ CallerAfterTeams(0)
    /\ UNCHANGED <<bdt, bdp, scr, fil>>

\* the loop of bdtimes_carregar_csv: the second data line of the file is one
\* that does not parse
CapTeamsBadLine ==
    /\ UNCHANGED <<atoi_vars, text_vars, print_vars, row_vars, search_vars, fold_vars, order_vars, menu_vars>>
    /\ pc = "t_loop"
    /\ f_read = 1
    /\ TeamsTurn(CapBadTeamLine, CallerAfterTeams(count))
    /\ UNCHANGED <<bdp, scr, fil>>

\* the loop of bdpartidas_carregar_csv: the second data line of the file is
\* one that does not parse
CapMatchesBadLine ==
    /\ UNCHANGED <<atoi_vars, text_vars, print_vars, row_vars, search_vars, fold_vars, order_vars, menu_vars>>
    /\ pc = "m_loop"
    /\ f_read = 1
    /\ MatchesTurn(CapBadMatchLine)
    /\ UNCHANGED <<bdt, scr, fil, exit_code>>

\* the caller loads another team file into the same registry
CapTeamsAgain ==
    /\ UNCHANGED <<atoi_vars, text_vars, print_vars, row_vars, search_vars, fold_vars, order_vars, menu_vars>>
    /\ pc = "t_done"
    /\ pc' = "t_open"
    /\ UNCHANGED <<bdt, bdp, diag, load_vars, scr, fil, exit_code>>

\* the caller goes on to the matches
CapTeamsEnough ==
    /\ UNCHANGED <<atoi_vars, text_vars, print_vars, row_vars, search_vars, fold_vars, order_vars, menu_vars>>
    /\ pc = "t_done"
    /\ pc' = "m_open"
    /\ UNCHANGED <<bdt, bdp, diag, load_vars, scr, fil, exit_code>>

\* the loop of bdpartidas_carregar_csv: a further line is read
CapMatchesLine ==
    /\ UNCHANGED <<atoi_vars, text_vars, print_vars, row_vars, search_vars, fold_vars, order_vars, menu_vars>>
    /\ pc = "m_loop"
    /\ f_read < 2 * CapMatchLines + 2
    /\ MatchesTurn(CapMatchLine(f_read))
    /\ UNCHANGED <<bdt, scr, fil, exit_code>>

\* bd_partidas.c:67 and 84-85: the file ends after its last line
CapMatchesEOF ==
    /\ UNCHANGED <<atoi_vars, text_vars, print_vars, row_vars, search_vars, fold_vars, order_vars, menu_vars>>
    /\ pc = "m_loop"
    /\ f_read \in CapMatchFiles
    /\ FCloseReturn
    /\ diag' = "none"
    /\ pc' = "fold"
    /\ UNCHANGED <<bdt, bdp, scr, fil, exit_code>>

\* the caller loads another match file into the same registry
CapMatchesAgain ==
    /\ UNCHANGED <<atoi_vars, text_vars, print_vars, row_vars, search_vars, fold_vars, order_vars, menu_vars>>
    /\ pc = "fold"
    /\ pc' = "m_open"
    /\ UNCHANGED <<bdt, bdp, diag, load_vars, scr, fil, exit_code>>

CapNext ==
    \/ TeamsOpen \/ TeamsHeader \/ CapTeamsLine \/ CapTeamsEOF \/ CapTeamsAgain
    \/ CapTeamsEnough
    \/ MatchesOpen \/ MatchesHeader \/ CapMatchesLine \/ CapMatchesEOF \/ CapMatchesAgain
    \/ CapTeamsOpenFail \/ CapTeamsHeaderEOF \/ CapTeamsBadLine
    \/ MatchesOpenFail \/ MatchesHeaderEOF \/ CapMatchesBadLine

SpecCap == Init /\ [][CapNext]_vars

-----------------------------------------------------------------------------
(* Claims about the capacity of the registries, checked under SpecCap *)

\* a is b or a shorter beginning of b
IsPrefix(a, b) == Len(a) <= Len(b) /\ SubSeq(b, 1, Len(a)) = a

\* C14: over any sequence of loads into the same registries the team count
\* never exceeds 64 and the match count never exceeds 500; the entries loaded
\* are kept as they are, and once a registry is full it no longer changes.
RegistriesStayWithinCapacity ==
    /\ [](Len(bdt) <= MAX_TIMES /\ Len(bdp) <= MAX_PARTIDAS)
    /\ [][/\ IsPrefix(bdt, bdt') /\ IsPrefix(bdp, bdp')
          /\ Len(bdt) = MAX_TIMES => bdt' = bdt
          /\ Len(bdp) = MAX_PARTIDAS => bdp' = bdp]_vars

\* both registries are full and the load just stopped on the capacity test
BothRegistriesFull ==
    /\ Len(bdt) = MAX_TIMES /\ Len(bdp) = MAX_PARTIDAS
    /\ pc = "fold" /\ diag = "capacity"

\* the positions inside a load at which the file is open
LoadStates == {"t_header", "t_loop", "m_header", "m_loop"}

\* C25: in every load the file opened is closed exactly once before the load
\* returns, whether it returns at the end of the file, for want of a header
\* line, after rows that did not parse, or on the capacity break; while the
\* load runs the file is open and not yet closed, and a load whose fopen
\* fails holds no file and closes none.
FileClosedOnceOnEveryReturn ==
    /\ [](pc \in LoadStates => f_open /\ f_closes = 0)
    /\ [](pc \notin LoadStates => ~f_open)
    /\ [][(pc \in LoadStates /\ pc' \notin LoadStates) => f_closes' = 1]_vars
    /\ [][(pc \in {"t_open", "m_open"} /\ pc' \notin LoadStates) =>
            diag' = "open_failed" /\ f_closes' = f_closes]_vars

\* a match load that skipped a row and then stopped on the capacity break
\* has returned with its file closed once
MatchLoadClosedAfterSkipAndBreak ==
    /\ pc = "fold" /\ diag = "capacity" /\ ~f_open /\ f_closes = 1
    /\ Len(bdp) = MAX_PARTIDAS
    /\ \E i \in 1..(Len(bdp) - 1) : bdp[i].id = 0 /\ bdp[i + 1].id = 2

-----------------------------------------------------------------------------
(* The fold step by step, bd_partidas.c:89-101, after the two loads *)

\* the data lines of the team file: "0,Fla\n"  " 0, Flu \n"  "1,São\r\n"
FoldTeamLines ==
    { <<48, 44, 70, 108, 97, 10>>,
      <<32, 48, 44, 32, 70, 108, 117, 32, 10>>,
      <<49, 44, 83, 195, 163, 111, 13, 10>> }

\* the data lines of the match file:
\*   "0,0,1,2,1\n"  "1,1,0,1,1\r\n"  "2,0,99,3,0\n"  "3,1,0,-1,0\n"  "6,0,0,2,1\n"
FoldMatchLines ==
    { <<48, 44, 48, 44, 49, 44, 50, 44, 49, 10>>,
      <<49, 44, 49, 44, 48, 44, 49, 44, 49, 13, 10>>,
      <<50, 44, 48, 44, 57, 57, 44, 51, 44, 48, 10>>,
      <<51, 44, 49, 44, 48, 44, 45, 49, 44, 48, 10>>,
      <<54, 44, 48, 44, 48, 44, 50, 44, 49, 10>> }

FoldTeamsLine ==
    /\ UNCHANGED <<atoi_vars, text_vars, print_vars, row_vars, search_vars, fold_vars, order_vars, menu_vars>>
    /\ pc = "t_loop"
    /\ \E line \in NextLines(FoldTeamLines, MaxTeamLines + 1) : TeamsTurn(line, MainAfterTeams(count))
    /\ UNCHANGED <<bdp, scr, fil>>

FoldMatchesLine ==
    /\ UNCHANGED <<atoi_vars, text_vars, print_vars, row_vars, search_vars, fold_vars, order_vars, menu_vars>>
    /\ pc = "m_loop"
    /\ \E line \in NextLines(FoldMatchLines, MaxMatchLines) : MatchesTurn(line)
    /\ UNCHANGED <<bdt, scr, fil, exit_code>>

\* bd_partidas.c:91: the match the loop is at
FoldMatch == bdp[k_i + 1]

\* bd_partidas.c:92-93: where the two ids of the match are found, 0 for NULL
FoldT1 == bdtimes_buscar_por_id(bdt, FoldMatch.time1)

FoldT2 == bdtimes_buscar_por_id(bdt, FoldMatch.time2)

\* a skip that still credits the home side when that team exists
SkipMatchCreditingHome ==
    bdt' = IF FoldT1 # 0
           THEN [bdt EXCEPT ![FoldT1] = time_acumular_partida(bdt[FoldT1], FoldMatch.g1, FoldMatch.g2)]
           ELSE bdt

\* bd_partidas.c:94-97: the warning and continue
SkipMatch == UNCHANGED bdt

\* the goals given to the away side, not reversed
AwayGoalsAsHome(p) == [gols_feitos |-> p.g1, gols_sofridos |-> p.g2]

\* bd_partidas.c:99: time_acumular_partida(t2, p->g2, p->g1)
AwayGoals(p) == [gols_feitos |-> p.g2, gols_sofridos |-> p.g1]

\* bd_partidas.c:94-97: one of the teams is not found
FoldSkip ==
    /\ UNCHANGED <<atoi_vars, text_vars, print_vars, row_vars, search_vars, order_vars, menu_vars>>
    /\ pc = "fold" /\ k_side = "none" /\ k_i < Len(bdp)
    /\ FoldT1 = 0 \/ FoldT2 = 0
    /\ SkipMatch
    /\ diag' = "unknown_team"
    /\ k_i' = k_i + 1
    /\ UNCHANGED <<pc, bdp, load_vars, scr, fil, exit_code, k_side>>

\* bd_partidas.c:98: time_acumular_partida(t1, p->g1, p->g2)
FoldHome ==
    /\ UNCHANGED <<atoi_vars, text_vars, print_vars, row_vars, search_vars, order_vars, menu_vars>>
    /\ pc = "fold" /\ k_side = "none" /\ k_i < Len(bdp)
    /\ FoldT1 # 0 /\ FoldT2 # 0
    /\ bdt' = [bdt EXCEPT ![FoldT1] = time_acumular_partida(bdt[FoldT1], FoldMatch.g1, FoldMatch.g2)]
    /\ k_side' = "home"
    /\ UNCHANGED <<pc, bdp, diag, load_vars, scr, fil, exit_code, k_i>>

\* bd_partidas.c:99, and the loop goes to the next match
FoldAway ==
    /\ UNCHANGED <<atoi_vars, text_vars, print_vars, row_vars, search_vars, order_vars, menu_vars>>
    /\ pc = "fold" /\ k_side = "home"
    /\ bdt' = [bdt EXCEPT ![FoldT2] =
                 time_acumular_partida(bdt[FoldT2], AwayGoals(FoldMatch).gols_feitos,
                                       AwayGoals(FoldMatch).gols_sofridos)]
    /\ k_side' = "none"
    /\ k_i' = k_i + 1
    /\ UNCHANGED <<pc, bdp, diag, load_vars, scr, fil, exit_code>>

\* bd_partidas.c:90: i reaches bdp->n, and main goes on to the menu
FoldEnd ==
    /\ UNCHANGED <<atoi_vars, text_vars, print_vars, row_vars, search_vars, order_vars, menu_vars>>
    /\ pc = "fold" /\ k_side = "none" /\ k_i = Len(bdp)
    /\ pc' = "menu"
    /\ UNCHANGED <<bdt, bdp, diag, load_vars, scr, fil, exit_code, fold_vars>>

FoldNext ==
    \/ TeamsOpen \/ TeamsHeader \/ FoldTeamsLine \/ TeamsEOF
    \/ MatchesOpen \/ MatchesHeader \/ FoldMatchesLine \/ MatchesEOF
    \/ FoldSkip \/ FoldHome \/ FoldAway \/ FoldEnd

SpecFold == Init /\ [][FoldNext]_vars

-----------------------------------------------------------------------------
(* Claims about the lookup by id and the fold, checked under SpecFold *)

\* the registry positions of the teams with this id
WithId(id) == {i \in 1..Len(bdt) : bdt[i].id = id}

\* the team has no match accumulated
NothingAccumulated(t) == t.v = 0 /\ t.e = 0 /\ t.d = 0 /\ t.gm = 0 /\ t.gs = 0

\* C17: bdtimes_buscar_por_id returns the team at the lowest registry position
\* with the id asked for, and not-found only when no loaded team has that id;
\* of two loaded teams with the same id only the first is ever found, so only
\* the first receives folded statistics.
LookupReturnsFirstWithId ==
    /\ \A id \in {bdt[i].id : i \in 1..Len(bdt)} \cup {99} :
          LET k == bdtimes_buscar_por_id(bdt, id) IN
          IF WithId(id) = {} THEN k = 0
          ELSE k \in WithId(id) /\ \A j \in WithId(id) : k <= j
    /\ \A i \in 1..Len(bdt) :
          (\E j \in 1..(i - 1) : bdt[j].id = bdt[i].id) => NothingAccumulated(bdt[i])

\* two teams with id 0 are in the registry after the fold; the first has a
\* match accumulated, the second none
DuplicateIdFirstTeamCredited ==
    /\ pc = "menu" /\ Len(bdt) >= 2
    /\ bdt[1].id = 0 /\ bdt[2].id = 0 /\ bdt[1].nome # bdt[2].nome
    /\ bdt[1].v + bdt[1].e + bdt[1].d > 0
    /\ NothingAccumulated(bdt[2])

\* C18: each call time_acumular_partida(t, gf, ga) adds gf to goals_for and ga
\* to goals_against and increments exactly one of wins, draws, losses by one:
\* wins if gf > ga, draws if gf = ga, losses otherwise; id and name (and every
\* other team) are unchanged.
AccumulateAddsGoalsAndOneResult ==
    [][(pc = "fold" /\ k_side' # k_side) =>
         LET t   == IF k_side = "none" THEN FoldT1 ELSE FoldT2
             gf  == IF k_side = "none" THEN FoldMatch.g1 ELSE FoldMatch.g2
             ga  == IF k_side = "none" THEN FoldMatch.g2 ELSE FoldMatch.g1
             old == bdt[t]
             new == bdt'[t]
         IN  /\ new.gm = old.gm + gf /\ new.gs = old.gs + ga
             /\ new.v = old.v + (IF gf > ga THEN 1 ELSE 0)
             /\ new.e = old.e + (IF gf = ga THEN 1 ELSE 0)
             /\ new.d = old.d + (IF gf < ga THEN 1 ELSE 0)
             /\ new.id = old.id /\ new.nome = old.nome
             /\ Len(bdt') = Len(bdt)
             /\ \A j \in 1..Len(bdt) : j # t => bdt'[j] = bdt[j]]_vars

\* the home side of a drawn match has just been accumulated as a draw
DrawAccumulatedForHome ==
    /\ pc = "fold" /\ k_side = "home"
    /\ FoldMatch.g1 = FoldMatch.g2
    /\ bdt[FoldT1].e = 1 /\ bdt[FoldT1].v = 0 /\ bdt[FoldT1].d = 0

\* the match resolves: both its ids are ids of loaded teams
Resolves(p) == WithId(p.time1) # {} /\ WithId(p.time2) # {}

\* the times team i was a side of a match that resolves
SidesPlayed(i) ==
    Cardinality({m \in 1..Len(bdp) : Resolves(bdp[m]) /\ bdtimes_buscar_por_id(bdt, bdp[m].time1) = i})
    + Cardinality({m \in 1..Len(bdp) : Resolves(bdp[m]) /\ bdtimes_buscar_por_id(bdt, bdp[m].time2) = i})

\* C19: during the fold a match whose home id or away id is not the id of a
\* loaded team changes no team's statistics, not even those of the side that
\* exists, and the fold goes on: every other match is still applied.
UnknownTeamMatchChangesNothing ==
    /\ [][(pc = "fold" /\ k_i < Len(bdp) /\ k_i' = k_i + 1 /\ ~Resolves(FoldMatch)) =>
            (bdt' = bdt /\ pc' = "fold")]_vars
    /\ [](pc = "menu" =>
            \A i \in 1..Len(bdt) : bdt[i].v + bdt[i].e + bdt[i].d = SidesPlayed(i))

\* the match 0 x 99 was skipped and the match 0 x 1 after it was applied
MatchAfterSkippedOneApplied ==
    /\ pc = "menu" /\ diag = "unknown_team"
    /\ Len(bdp) = 2 /\ bdp[1].time2 = 99 /\ bdp[2].id = 0
    /\ WithId(0) # {} /\ WithId(1) # {}
    /\ bdt[bdtimes_buscar_por_id(bdt, 0)].gm = 2
    /\ bdt[bdtimes_buscar_por_id(bdt, 0)].v = 1

\* what match p gives team i: [gm, gs, v, e, d]
Share(gf, ga) ==
    [gm |-> gf, gs |-> ga, v |-> IF gf > ga THEN 1 ELSE 0,
     e |-> IF gf = ga THEN 1 ELSE 0, d |-> IF gf < ga THEN 1 ELSE 0]

NoShare == [gm |-> 0, gs |-> 0, v |-> 0, e |-> 0, d |-> 0]

AddShares(a, b) ==
    [gm |-> a.gm + b.gm, gs |-> a.gs + b.gs, v |-> a.v + b.v, e |-> a.e + b.e, d |-> a.d + b.d]

\* the first team with the id p names for a side
FirstWithId(id) == CHOOSE k \in WithId(id) : \A j \in WithId(id) : k <= j

HomeShare(i, p) ==
    IF Resolves(p) /\ FirstWithId(p.time1) = i THEN Share(p.g1, p.g2) ELSE NoShare

AwayShare(i, p) ==
    IF Resolves(p) /\ FirstWithId(p.time2) = i THEN Share(p.g2, p.g1) ELSE NoShare

RECURSIVE Totals(_, _)
\* the totals of team i over the first m matches
Totals(i, m) ==
    IF m = 0 THEN NoShare
    ELSE AddShares(Totals(i, m - 1), AddShares(HomeShare(i, bdp[m]), AwayShare(i, bdp[m])))

\* C20: after one fold over freshly loaded teams, each team's goals_for,
\* goals_against, wins, draws and losses are the totals over all matches whose
\* two ids both resolve, the match counted from the home side as (home_goals,
\* away_goals) and from the away side as (away_goals, home_goals); points are
\* 3*wins + draws and the goal difference is goals_for - goals_against.
FoldGivesTotalsOfResolvedMatches ==
    (pc = "menu") =>
        \A i \in 1..Len(bdt) :
            LET tot == Totals(i, Len(bdp)) IN
            /\ bdt[i].gm = tot.gm /\ bdt[i].gs = tot.gs
            /\ bdt[i].v = tot.v /\ bdt[i].e = tot.e /\ bdt[i].d = tot.d
            /\ time_pontos(bdt[i]) = 3 * tot.v + tot.e
            /\ time_saldo(bdt[i]) = tot.gm - tot.gs

\* the match "0,0,1,2,1" folded into teams 0 and 1: team 0 has {v:1, gm:2,
\* gs:1}, 3 points and +1; team 1 has {d:1, gm:1, gs:2}, 0 points and -1
OneMatchFolded ==
    /\ pc = "menu" /\ Len(bdt) = 2 /\ bdt[1].id = 0 /\ bdt[2].id = 1
    /\ bdp = <<[id |-> 0, time1 |-> 0, time2 |-> 1, g1 |-> 2, g2 |-> 1]>>
    /\ bdt[1].v = 1 /\ bdt[1].e = 0 /\ bdt[1].d = 0 /\ bdt[1].gm = 2 /\ bdt[1].gs = 1
    /\ bdt[2].v = 0 /\ bdt[2].e = 0 /\ bdt[2].d = 1 /\ bdt[2].gm = 1 /\ bdt[2].gs = 2
    /\ time_pontos(bdt[1]) = 3 /\ time_pontos(bdt[2]) = 0
    /\ time_saldo(bdt[1]) = 1 /\ time_saldo(bdt[2]) = -1

RECURSIVE TeamSums(_)
\* the sums of goals_for, goals_against, wins, draws and losses over the first
\* n teams of the registry
TeamSums(n) ==
    IF n = 0 THEN NoShare
    ELSE AddShares(TeamSums(n - 1),
                   [gm |-> bdt[n].gm, gs |-> bdt[n].gs, v |-> bdt[n].v,
                    e |-> bdt[n].e, d |-> bdt[n].d])

\* the matches the fold did not skip
MatchesApplied == {m \in 1..Len(bdp) : Resolves(bdp[m])}

\* C29: after the fold over freshly loaded teams the goals_for of all teams
\* sum to the same as their goals_against, the wins to the same as the losses,
\* the draws sum to an even number, and wins + draws + losses of all teams sum
\* to twice the number of matches that were not skipped.
FoldTotalsBalance ==
    (pc = "menu") =>
        LET s == TeamSums(Len(bdt)) IN
        /\ s.gm = s.gs
        /\ s.v = s.d
        /\ s.e % 2 = 0
        /\ s.v + s.e + s.d = 2 * Cardinality(MatchesApplied)

\* the fold ran over two teams with id 0 and the matches "6,0,0,2,1", a team
\* against itself, and "2,0,99,3,0", which is skipped: the first team has one
\* win, one loss, three goals for and three against
SelfMatchFoldedWithDuplicateIds ==
    /\ pc = "menu" /\ Len(bdt) >= 2 /\ bdt[1].id = 0 /\ bdt[2].id = 0
    /\ Len(bdp) = 2 /\ bdp[1].id = 6 /\ bdp[2].id = 2
    /\ bdt[1].v = 1 /\ bdt[1].d = 1 /\ bdt[1].gm = 3 /\ bdt[1].gs = 3
    /\ Cardinality(MatchesApplied) = 1

-----------------------------------------------------------------------------
(* The loads of files with lines longer than the read buffers,              *)
(* bd_times.c:208-254 and bd_partidas.c:57-83                               *)

\* a header line of TEAM_BUF - 1 bytes "H" followed by "7,X\n"
LongTeamHeader == [i \in 1..(TEAM_BUF - 1) |-> 72] \o <<55, 44, 88, 10>>

\* the data line "0,AA...A1,B\n": "0," and "A"s up to TEAM_BUF - 1 bytes, then "1,B\n"
LongTeamLine == <<48, 44>> \o [i \in 1..(TEAM_BUF - 3) |-> 65] \o <<49, 44, 66, 10>>

\* a header line of MATCH_BUF - 1 bytes "H" followed by "9,0,1,1,1\n"
LongMatchHeader ==
    [i \in 1..(MATCH_BUF - 1) |-> 72] \o <<57, 44, 48, 44, 49, 44, 49, 44, 49, 10>>

\* the data line "0,0,1,2,1", blanks up to MATCH_BUF - 1 bytes, then "9,0,1,1,1\n"
LongMatchLine ==
    <<48, 44, 48, 44, 49, 44, 50, 44, 49>> \o Spaces(MATCH_BUF - 10)
        \o <<57, 44, 48, 44, 49, 44, 49, 44, 49, 10>>

\* the header lines and the data lines of the files: a short one and a long one
LongTeamHeaders == {TeamHeaderLine, LongTeamHeader}

LongTeamLines == {<<48, 44, 70, 108, 97, 10>>, LongTeamLine}

LongMatchHeaders == {MatchHeaderLine, LongMatchHeader}

LongMatchLines == {<<49, 44, 49, 44, 48, 44, 49, 44, 49, 10>>, LongMatchLine}

\* bd_times.c:211-217: the first fgets, whose bytes are dropped as the header
LongTeamsHeader ==
    /\ UNCHANGED <<atoi_vars, text_vars, print_vars, row_vars, search_vars, fold_vars, order_vars, menu_vars>>
    /\ pc = "t_header"
    /\ \E h \in LongTeamHeaders : FGets(h, TEAM_BUF)
    /\ count' = 0
    /\ pc' = "t_loop"
    /\ UNCHANGED <<bdt, bdp, diag, f_open, f_closes, scr, fil, exit_code>>

\* bd_times.c:220-254: a further fgets, of a new line or of what the fgets
\* before it left of its line
LongTeamsLine ==
    /\ UNCHANGED <<atoi_vars, text_vars, print_vars, row_vars, search_vars, fold_vars, order_vars, menu_vars>>
    /\ pc = "t_loop"
    /\ \E line \in NextLines(LongTeamLines, MaxLongLines) : TeamsTurn(line, MainAfterTeams(count))
    /\ UNCHANGED <<bdp, scr, fil>>

\* bd_partidas.c:60-66: the first fgets, whose bytes are dropped as the header
LongMatchesHeader ==
    /\ UNCHANGED <<atoi_vars, text_vars, print_vars, row_vars, search_vars, fold_vars, order_vars, menu_vars>>
    /\ pc = "m_header"
    /\ \E h \in LongMatchHeaders : FGets(h, MATCH_BUF)
    /\ count' = 0
    /\ pc' = "m_loop"
    /\ UNCHANGED <<bdt, bdp, diag, f_open, f_closes, scr, fil, exit_code>>

\* bd_partidas.c:67-83: a further fgets
LongMatchesLine ==
    /\ UNCHANGED <<atoi_vars, text_vars, print_vars, row_vars, search_vars, fold_vars, order_vars, menu_vars>>
    /\ pc = "m_loop"
    /\ \E line \in NextLines(LongMatchLines, MaxLongLines) : MatchesTurn(line)
    /\ UNCHANGED <<bdt, scr, fil, exit_code>>

LongNext ==
    \/ TeamsOpen \/ LongTeamsHeader \/ LongTeamsLine \/ TeamsEOF
    \/ MatchesOpen \/ LongMatchesHeader \/ LongMatchesLine \/ MatchesEOF

SpecLong == Init /\ [][LongNext]_vars

-----------------------------------------------------------------------------
(* Claims about lines longer than the read buffers, checked under SpecLong *)

\* C30: every physical line after the header adds at most one entry to the
\* registry: while a file is loaded the registry holds no more entries than
\* data lines were read, so neither a long data line nor a long header line
\* has a piece of it parsed as a row of its own.
PhysicalLineAddsAtMostOneEntry ==
    /\ pc = "t_loop" => Len(bdt) <= f_read
    /\ pc = "m_loop" => Len(bdp) <= f_read

-----------------------------------------------------------------------------
(* The operations in any order: a caller that loads team files, loads match *)
(* files, folds and prints the standings in whatever order it likes         *)

\* the data lines of the team files: "0,Fla\n"  "1,São\r\n"
OrdTeamLines ==
    { <<48, 44, 70, 108, 97, 10>>,
      <<49, 44, 83, 195, 163, 111, 13, 10>> }

\* the data lines of the match files: "0,0,1,2,1\n"  "2,0,99,3,0\n"
OrdMatchLines ==
    { <<48, 44, 48, 44, 49, 44, 50, 44, 49, 10>>,
      <<50, 44, 48, 44, 57, 57, 44, 51, 44, 48, 10>> }

\* the caller loads no further file into a registry that holds as many
\* entries as there are different data lines
OrdTeamsWanted == Cardinality(OrdTeamLines)

OrdMatchesWanted == Cardinality(OrdMatchLines)

\* where the caller is between two operations: about to load teams, having
\* loaded teams, about to load matches, about to fold, about to print
OrdBetween == {"t_open", "t_done", "m_open", "fold", "menu"}

\* the caller turns to another operation
OrdPick ==
    /\ UNCHANGED <<atoi_vars, text_vars, print_vars, row_vars, search_vars, fold_vars, order_vars, menu_vars>>
    /\ pc \in OrdBetween
    /\ \E e \in {"t_open", "m_open", "fold", "menu"} \ {pc} :
          /\ e = "t_open" => Len(bdt) < OrdTeamsWanted
          /\ e = "m_open" => Len(bdp) < OrdMatchesWanted
          /\ e = "fold" => o_folds < MaxFolds
          /\ pc' = e
    /\ UNCHANGED <<bdt, bdp, diag, load_vars, scr, fil, exit_code>>

\* the loop of bdtimes_carregar_csv: a further line is read
OrdTeamsLine ==
    /\ UNCHANGED <<atoi_vars, text_vars, print_vars, row_vars, search_vars, fold_vars, order_vars, menu_vars>>
    /\ pc = "t_loop"
    /\ \E line \in NextLines(OrdTeamLines, MaxOrdLines) : TeamsTurn(line, CallerAfterTeams(count))
    /\ UNCHANGED <<bdp, scr, fil>>

\* bd_times.c:220 and 256-259: fgets finds the end of the file
OrdTeamsEOF ==
    /\ UNCHANGED <<atoi_vars, text_vars, print_vars, row_vars, search_vars, fold_vars, order_vars, menu_vars>>
    /\ pc = "t_loop"
    /\ f_rest = <<>>
    /\ FCloseReturn
    /\ diag' = "none"
    /\ CallerAfterTeams(count)
    /\ UNCHANGED <<bdt, bdp, scr, fil>>

\* the loop of bdpartidas_carregar_csv: a further line is read
OrdMatchesLine ==
    /\ UNCHANGED <<atoi_vars, text_vars, print_vars, row_vars, search_vars, fold_vars, order_vars, menu_vars>>
    /\ pc = "m_loop"
    /\ \E line \in NextLines(OrdMatchLines, MaxOrdLines) : MatchesTurn(line)
    /\ UNCHANGED <<bdt, scr, fil, exit_code>>

\* bd_partidas.c:89-101: the fold, called with the registries as they are
OrdFold ==
    /\ UNCHANGED <<atoi_vars, text_vars, print_vars, row_vars, search_vars, fold_vars, menu_vars>>
    /\ pc = "fold"
    /\ o_folds < MaxFolds
    /\ bdt' = bdpartidas_aplicar_em_bdtimes(bdp, bdt)
    /\ diag' = IF \E i \in 1..Len(bdp) :
                     \/ bdtimes_buscar_por_id(bdt, bdp[i].time1) = 0
                     \/ bdtimes_buscar_por_id(bdt, bdp[i].time2) = 0
               THEN "unknown_team" ELSE "none"
    /\ o_fresh' = Len(bdt)
    /\ o_folds' = o_folds + 1
    /\ pc' = "menu"
    /\ UNCHANGED <<bdp, load_vars, scr, fil, exit_code>>

OrdNext ==
    \/ OrdPick
    \/ CapTeamsOpenFail \/ TeamsOpen \/ CapTeamsHeaderEOF \/ TeamsHeader
    \/ OrdTeamsLine \/ OrdTeamsEOF
    \/ MatchesOpenFail \/ MatchesOpen \/ MatchesHeaderEOF \/ MatchesHeader
    \/ OrdMatchesLine \/ MatchesEOF
    \/ OrdFold \/ MenuStandings

SpecOrder == Init /\ [][OrdNext]_vars

-----------------------------------------------------------------------------
(* Claims about the order of the operations, checked under SpecOrder *)

\* C23: a team is created with all its statistics zero and only the fold
\* changes statistics: a team loaded after the fold ran last (or when it never
\* ran) has wins, draws, losses, goals_for and goals_against 0, whatever was
\* called before, the fold on an empty team registry and the standings before
\* any fold included; every other operation leaves the teams as they are and
\* appends only teams at zero, and no operation ends the process.
OnlyFoldChangesStatistics ==
    /\ [](\A i \in 1..Len(bdt) : i > o_fresh => NothingAccumulated(bdt[i]))
    /\ [][pc # "fold" =>
            /\ IsPrefix(bdt, bdt')
            /\ \A i \in (Len(bdt) + 1)..Len(bdt') : NothingAccumulated(bdt'[i])]_vars
    /\ [][(pc = "fold" /\ pc' = "menu") => Len(bdt') = Len(bdt)]_vars
    /\ [](exit_code = -1 /\ pc # "exit")

\* the fold ran over the match 0 x 1 before any team was loaded, the teams 0
\* and 1 were loaded after it, and the standings show both at zero
StandingsAfterFoldBeforeTeams ==
    /\ pc = "menu" /\ o_folds = 1 /\ o_fresh = 0
    /\ Len(bdp) >= 1 /\ bdp[1].time1 = 0 /\ bdp[1].time2 = 1
    /\ Len(bdt) = 2 /\ bdt[1].id = 0 /\ bdt[2].id = 1
    /\ NothingAccumulated(bdt[1]) /\ NothingAccumulated(bdt[2])
    /\ Len(scr) = 4

-----------------------------------------------------------------------------
(* Claims about the loads, the fold and the standings, checked under Spec *)

RECURSIVE CommaFields(_)
\* the comma-delimited fields of a line, empty ones included
CommaFields(s) ==
    LET f == UntilComma(s) IN
    IF Len(f) = Len(s) THEN <<f>>
    ELSE <<f>> \o CommaFields(SubSeq(s, Len(f) + 2, Len(s)))

\* C15: during a load a row that fails to parse is skipped without changing
\* the registry and without stopping the load, every valid row is appended at
\* the end of the registry, and the value the load returns (count) is the
\* number of entries the call appended; main stops exactly when the team load
\* returned 0.
LoadSkipsBadRowsAndCountsLoaded ==
    /\ []((pc = "t_loop" => count = Len(bdt)) /\ (pc = "m_loop" => count = Len(bdp)))
    /\ [][(pc = "t_loop" /\ pc' = "t_loop") =>
             LET r == parse_time_linha(buf') IN
             bdt' = IF r.ok THEN Append(bdt, time_zerar_stats(r.id, r.nome)) ELSE bdt]_vars
    /\ [][(pc = "m_loop" /\ pc' = "m_loop") =>
             LET r == parse_partida_linha(buf') IN
             bdp' = IF r.ok THEN Append(bdp, r.p) ELSE bdp]_vars
    /\ [][(pc = "t_loop" /\ pc' # "t_loop") =>
             /\ bdt' = bdt
             /\ diag' \in {"none", "capacity"}
             /\ (pc' = "exit" /\ exit_code' = 1) <=> (count = 0)]_vars
    /\ [][(pc = "m_loop" /\ pc' # "m_loop") =>
             bdp' = bdp /\ diag' \in {"none", "capacity"}]_vars

\* the second line of the team file was loaded after the first was skipped
TeamLoadedAfterSkippedRow ==
    /\ pc = "t_loop" /\ f_read = 2 /\ diag = "loaded"
    /\ count = 1 /\ Len(bdt) = 1

\* C3: a match line is accepted only when it has exactly five comma-delimited
\* fields that all parse as integers; a line with fewer or more than five
\* fields adds no match to the registry.
MatchLoadedOnlyFromFiveFields ==
    (pc = "m_loop" /\ diag = "loaded") =>
        LET fs == CommaFields(str_trim(chomp(buf))) IN
        /\ Len(fs) = 5
        /\ \A k \in 1..Len(fs) : safe_atoi(str_trim(fs[k])).ret = 1

\* the registry positions of all the teams, sorted by id (equal ids in registry order)
SortedById(bd) == RowsInIdOrder(bd, {bd[i].id : i \in 1..Len(bd)})

\* the rows after the header and the separator
DataRows(table) == SubSeq(table, 3, Len(table))

\* C4: the standings, on screen and in the file, hold exactly one row per
\* loaded team in ascending order of id: the rows are those of the loaded
\* teams sorted by id.
StandingsListEveryTeamById ==
    (pc = "menu" /\ scr # <<>>) =>
        LET ord == SortedById(bdt) IN
        /\ DataRows(scr) = [k \in 1..Len(ord) |-> ScreenRow(TeamColumns(bdt[ord[k]]))]
        /\ diag = "exported" =>
              DataRows(fil) = [k \in 1..Len(ord) |-> FileRow(TeamColumns(bdt[ord[k]]))]

\* C5: each data row of the exported file is the row printed on screen: every
\* column is rendered to its width by code points, with the truncation and
\* padding of print_utf8_padded.
ExportRowsEqualScreenRows ==
    (pc = "menu" /\ diag = "exported") =>
        /\ Len(fil) = Len(scr)
        /\ \A k \in 3..Len(scr) : fil[k] = scr[k]

\* C6: once the files are loaded and the fold has run, every loaded match has
\* non-negative goals and every team has non-negative wins, draws, losses,
\* goals_for and goals_against.
GoalsAndStatsNonNegative ==
    (pc \in {"menu", "exit"} /\ exit_code # 1) =>
        /\ \A i \in 1..Len(bdp) : bdp[i].g1 >= 0 /\ bdp[i].g2 >= 0
        /\ \A i \in 1..Len(bdt) :
              /\ bdt[i].v >= 0 /\ bdt[i].e >= 0 /\ bdt[i].d >= 0
              /\ bdt[i].gm >= 0 /\ bdt[i].gs >= 0

\* the positions of main inside bdtimes_carregar_csv
TeamLoadStates == {"t_open", "t_header", "t_loop"}

\* C21: the process ends with code 1 exactly from the team load, when it
\* loaded no team, and with code 0 from the menu in every other run; when the
\* match file does not open or has no header line the registry of matches is
\* empty, the fold leads to the menu, and there every team has zero statistics.
ExitOneOnlyWhenTeamsFailToLoad ==
    /\ [][(pc # "exit" /\ pc' = "exit") =>
            IF pc \in TeamLoadStates THEN exit_code' = 1 /\ bdt' = <<>>
            ELSE pc = "menu" /\ exit_code' = 0 /\ bdt # <<>>]_vars
    /\ [][(pc \in {"m_open", "m_header"} /\ pc' = "fold") =>
            bdp' = <<>> /\ diag' \in {"open_failed", "empty"}]_vars
    /\ [][(pc = "fold" /\ pc' # "fold") => pc' = "menu"]_vars
    /\ [](pc = "menu" /\ bdp = <<>> =>
            \A i \in 1..Len(bdt) : NothingAccumulated(bdt[i]))

\* the match file did not load, the standings were shown with every team at
\* zero, and the process ended with code 0
ExitZeroWithoutMatches ==
    /\ pc = "exit" /\ exit_code = 0 /\ bdp = <<>> /\ Len(bdt) = 2
    /\ Len(scr) = 4
    /\ \A i \in 1..Len(bdt) : NothingAccumulated(bdt[i])

\* C22: a team file that opens and has a header line never makes the process
\* end with code 1 on account of a row that does not parse.
MalformedTeamRowNeverFatal ==
    [][(pc = "t_loop" /\ diag = "parse_failed") =>
          ~(pc' = "exit" /\ exit_code' = 1)]_vars


-----------------------------------------------------------------------------
(* The interactive loop with its three prompts: main at main.c:243-281,      *)
(* consultar_time at main.c:69-106, consultar_partidas at main.c:125-172     *)

\* the data lines of the team files: "0,Fla\n"  "1,fLu\n"
MenuTeamLines ==
    { <<48, 44, 70, 108, 97, 10>>,
      <<49, 44, 102, 76, 117, 10>> }

\* the data lines of the match files: "0,0,1,2,1\n"  "2,1,99,3,0\n"
MenuMatchLines ==
    { <<48, 44, 48, 44, 49, 44, 50, 44, 49, 10>>,
      <<50, 44, 49, 44, 57, 57, 44, 51, 44, 48, 10>> }

\* a match file has at most as many data lines as there are different ones
MenuMatchesWanted == Cardinality(MenuMatchLines)

\* the lines typed at an option prompt: "1" "2" "3" "4" "6" "Q" "q" and the
\* empty line, each with its '\n'
OptionLines ==
    { <<49, 10>>, <<50, 10>>, <<51, 10>>, <<52, 10>>, <<54, 10>>,
      <<81, 10>>, <<113, 10>>, <<10>> }

\* the lines typed at a prefix prompt: " fL\t"  "(D"  ""  " \t\r"
PrefixLines ==
    { <<32, 102, 76, 9, 10>>, <<40, 68, 10>>, <<10>>, <<32, 9, 13, 10>> }

\* char op[8], main.c:248 and 137
OP_BUF == 8

\* char buf[128], char prefixo[128], main.c:70 and 144
PREFIXO_BUF == 128

\* int indices[64] and the 64 passed as max_indices, main.c:86-87
MAX_INDICES == 64

\* utils.c:162-176 on a stdin whose next bytes are line: what is in buf
read_line(line, size) ==
    LET b == Chunk(line, size) IN
    IF Len(b) > 0 /\ b[Len(b)] = 10 THEN SubSeq(b, 1, Len(b) - 1) ELSE b

\* op[0] of a buffer holding the string s
FirstChar(s) == IF s = <<>> THEN 0 ELSE s[1]

\* the loop of bdtimes_carregar_csv called by main: a further line is read
MenuTeamsLine ==
    /\ UNCHANGED <<atoi_vars, text_vars, print_vars, row_vars, search_vars, fold_vars, order_vars, menu_vars>>
    /\ pc = "t_loop"
    /\ \E line \in NextLines(MenuTeamLines, MaxMenuLines) : TeamsTurn(line, MainAfterTeams(count))
    /\ UNCHANGED <<bdp, scr, fil>>

\* the loop of bdpartidas_carregar_csv called by main: a further line is read
MenuMatchesLine ==
    /\ UNCHANGED <<atoi_vars, text_vars, print_vars, row_vars, search_vars, fold_vars, order_vars, menu_vars>>
    /\ pc = "m_loop"
    /\ \E line \in NextLines(MenuMatchLines, MenuMatchesWanted) : MatchesTurn(line)
    /\ UNCHANGED <<bdt, scr, fil, exit_code>>

\* main.c:249 and 280-281: read_line meets the end of the input
MainEOF ==
    /\ UNCHANGED <<atoi_vars, text_vars, print_vars, row_vars, search_vars, fold_vars, order_vars>>
    /\ pc = "menu"
    /\ in_eof' = TRUE
    /\ pc' = "exit"
    /\ exit_code' = 0
    /\ UNCHANGED <<bdt, bdp, diag, load_vars, scr, fil, in_line, sub_op, m_call, m_rows, m_none>>

\* main.c:249-252 and 280-281: Q or q
MainQuit ==
    /\ UNCHANGED <<atoi_vars, text_vars, print_vars, row_vars, search_vars, fold_vars, order_vars>>
    /\ pc = "menu"
    /\ ~in_eof
    /\ \E line \in OptionLines :
          /\ FirstChar(read_line(line, OP_BUF)) \in {81, 113}
          /\ in_line' = read_line(line, OP_BUF)
    /\ pc' = "exit"
    /\ exit_code' = 0
    /\ UNCHANGED <<bdt, bdp, diag, load_vars, scr, fil, in_eof, sub_op, m_call, m_rows, m_none>>

\* main.c:256-259: case '1', consultar_time is entered
MainTeam ==
    /\ UNCHANGED <<atoi_vars, text_vars, print_vars, row_vars, search_vars, fold_vars, order_vars>>
    /\ pc = "menu"
    /\ ~in_eof
    /\ \E line \in OptionLines :
          /\ FirstChar(read_line(line, OP_BUF)) = 49
          /\ in_line' = read_line(line, OP_BUF)
    /\ pc' = "team_name"
    /\ UNCHANGED <<bdt, bdp, diag, load_vars, scr, fil, exit_code, in_eof, sub_op, m_call, m_rows, m_none>>

\* main.c:261-264: case '2', consultar_partidas is entered
MainMatches ==
    /\ UNCHANGED <<atoi_vars, text_vars, print_vars, row_vars, search_vars, fold_vars, order_vars>>
    /\ pc = "menu"
    /\ ~in_eof
    /\ \E line \in OptionLines :
          /\ FirstChar(read_line(line, OP_BUF)) = 50
          /\ in_line' = read_line(line, OP_BUF)
    /\ pc' = "sub"
    /\ UNCHANGED <<bdt, bdp, diag, load_vars, scr, fil, exit_code, in_eof, sub_op, m_call, m_rows, m_none>>

\* main.c:266-270, bd_times.c:450-550: case '6'; the export file may fail to open
MainStandings ==
    /\ UNCHANGED <<atoi_vars, text_vars, print_vars, row_vars, search_vars, fold_vars, order_vars>>
    /\ pc = "menu"
    /\ ~in_eof
    /\ \E line \in OptionLines :
          /\ FirstChar(read_line(line, OP_BUF)) = 54
          /\ in_line' = read_line(line, OP_BUF)
    /\ scr' = ScreenTable(bdt)
    /\ \E opened \in BOOLEAN :
          IF opened THEN fil' = FileTable(bdt) /\ diag' = "exported"
          ELSE diag' = "export_failed" /\ UNCHANGED fil
    /\ UNCHANGED <<pc, bdt, bdp, load_vars, exit_code, in_eof, sub_op, m_call, m_rows, m_none>>

\* main.c:272-275: default, "Opcao invalida."
MainInvalid ==
    /\ UNCHANGED <<atoi_vars, text_vars, print_vars, row_vars, search_vars, fold_vars, order_vars>>
    /\ pc = "menu"
    /\ ~in_eof
    /\ \E line \in OptionLines :
          /\ FirstChar(read_line(line, OP_BUF)) \notin {81, 113, 49, 50, 54}
          /\ in_line' = read_line(line, OP_BUF)
    /\ diag' = "opcao_invalida"
    /\ UNCHANGED <<pc, bdt, bdp, load_vars, scr, fil, exit_code, in_eof, sub_op, m_call, m_rows, m_none>>

\* a test of the prefix that lets every prefix through
PrefixoNuncaVazio(prefixo) == FALSE

\* main.c:80 and 152: buf[0] == '\0' after str_trim
PrefixoVazio(prefixo) == FirstChar(prefixo) = 0

\* main.c:81-82 and 153-154: "Prefixo vazio." and the return, or the continue, to
\* the prompt at back
QueryAborted(back) ==
    /\ diag' = "prefixo_vazio"
    /\ pc' = back
    /\ UNCHANGED <<m_call, m_rows, m_none>>

\* main.c:74: read_line meets the end of the input; back to main
TeamNameEOF ==
    /\ UNCHANGED <<atoi_vars, text_vars, print_vars, row_vars, search_vars, fold_vars, order_vars>>
    /\ pc = "team_name"
    /\ in_eof' = TRUE
    /\ pc' = "menu"
    /\ UNCHANGED <<bdt, bdp, diag, load_vars, scr, fil, exit_code, in_line, sub_op, m_call, m_rows, m_none>>

\* main.c:86-105: the search, and the rows printed of the teams it found
TeamsFound(prefixo) ==
    LET r == bdtimes_buscar_por_prefixo([i \in 1..Len(bdt) |-> bdt[i].nome], prefixo,
                                        [k \in 0..(MAX_INDICES - 1) |-> -1], MAX_INDICES)
        n == IF r.found < MAX_INDICES THEN r.found ELSE MAX_INDICES
    IN  [rows |-> [i \in 1..n |-> bdt[r.indices[i - 1] + 1]], none |-> r.found <= 0]

\* main.c:74-105: consultar_time with the line read
TeamName ==
    /\ UNCHANGED <<atoi_vars, text_vars, print_vars, row_vars, search_vars, fold_vars, order_vars>>
    /\ pc = "team_name"
    /\ ~in_eof
    /\ \E line \in PrefixLines :
          LET prefixo == str_trim(read_line(line, PREFIXO_BUF)) IN
          /\ in_line' = read_line(line, PREFIXO_BUF)
          /\ IF PrefixoVazio(prefixo) THEN QueryAborted("menu")
             ELSE /\ m_call' = [fn |-> "bdtimes_buscar_por_prefixo", prefixo |-> prefixo]
                  /\ m_rows' = TeamsFound(prefixo).rows
                  /\ m_none' = TeamsFound(prefixo).none
                  /\ diag' = "none"
                  /\ pc' = "menu"
    /\ UNCHANGED <<bdt, bdp, load_vars, scr, fil, exit_code, in_eof, sub_op>>

\* an end of the input that leaves consultar_partidas in its loop
SubStaysOnEOF == pc' = "sub"

\* main.c:138 and 146: return, to the loop of main
SubReturnsOnEOF == pc' = "menu"

\* main.c:138: read_line meets the end of the input at the option prompt
SubEOF ==
    /\ UNCHANGED <<atoi_vars, text_vars, print_vars, row_vars, search_vars, fold_vars, order_vars>>
    /\ pc = "sub"
    /\ in_eof' = TRUE
    /\ SubReturnsOnEOF
    /\ UNCHANGED <<bdt, bdp, diag, load_vars, scr, fil, exit_code, in_line, sub_op, m_call, m_rows, m_none>>

\* main.c:141: option 4, back to main
SubReturn ==
    /\ UNCHANGED <<atoi_vars, text_vars, print_vars, row_vars, search_vars, fold_vars, order_vars>>
    /\ pc = "sub"
    /\ ~in_eof
    /\ \E line \in OptionLines :
          /\ FirstChar(read_line(line, OP_BUF)) = 52
          /\ in_line' = read_line(line, OP_BUF)
    /\ pc' = "menu"
    /\ UNCHANGED <<bdt, bdp, diag, load_vars, scr, fil, exit_code, in_eof, sub_op, m_call, m_rows, m_none>>

\* main.c:138-145: any other option, kept in op while the name is asked for
SubOption ==
    /\ UNCHANGED <<atoi_vars, text_vars, print_vars, row_vars, search_vars, fold_vars, order_vars>>
    /\ pc = "sub"
    /\ ~in_eof
    /\ \E line \in OptionLines :
          /\ FirstChar(read_line(line, OP_BUF)) # 52
          /\ in_line' = read_line(line, OP_BUF)
          /\ sub_op' = FirstChar(read_line(line, OP_BUF))
    /\ pc' = "sub_name"
    /\ UNCHANGED <<bdt, bdp, diag, load_vars, scr, fil, exit_code, in_eof, m_call, m_rows, m_none>>

\* main.c:146: read_line meets the end of the input at the name prompt
SubNameEOF ==
    /\ UNCHANGED <<atoi_vars, text_vars, print_vars, row_vars, search_vars, fold_vars, order_vars>>
    /\ pc = "sub_name"
    /\ in_eof' = TRUE
    /\ SubReturnsOnEOF
    /\ sub_op' = -1
    /\ UNCHANGED <<bdt, bdp, diag, load_vars, scr, fil, exit_code, in_line, m_call, m_rows, m_none>>

\* main.c:158-170: the listing the option stands for, with what it printed
Listed(fn, out, prefixo) ==
    /\ m_call' = [fn |-> fn, prefixo |-> prefixo]
    /\ m_rows' = out.rows
    /\ m_none' = out.none
    /\ diag' = "none"

\* main.c:146-171: consultar_partidas with the name read, and on to the next turn
SubName ==
    /\ UNCHANGED <<atoi_vars, text_vars, print_vars, row_vars, search_vars, fold_vars, order_vars>>
    /\ pc = "sub_name"
    /\ ~in_eof
    /\ \E line \in PrefixLines :
          LET prefixo == str_trim(read_line(line, PREFIXO_BUF)) IN
          /\ in_line' = read_line(line, PREFIXO_BUF)
          /\ IF PrefixoVazio(prefixo) THEN QueryAborted("sub")
             ELSE /\ pc' = "sub"
                  /\ IF sub_op = 49
                     THEN Listed("bdpartidas_listar_por_mandante_prefixo",
                                 bdpartidas_listar_por_mandante_prefixo(bdp, bdt, prefixo), prefixo)
                     ELSE IF sub_op = 50
                     THEN Listed("bdpartidas_listar_por_visitante_prefixo",
                                 bdpartidas_listar_por_visitante_prefixo(bdp, bdt, prefixo), prefixo)
                     ELSE IF sub_op = 51
                     THEN Listed("bdpartidas_listar_por_qualquer_prefixo",
                                 bdpartidas_listar_por_qualquer_prefixo(bdp, bdt, prefixo), prefixo)
                     ELSE /\ diag' = "opcao_invalida"
                          /\ UNCHANGED <<m_call, m_rows, m_none>>
    /\ sub_op' = -1
    /\ UNCHANGED <<bdt, bdp, load_vars, scr, fil, exit_code, in_eof>>

MenuNext ==
    \/ TeamsOpen \/ TeamsHeader \/ MenuTeamsLine \/ TeamsEOF
    \/ MatchesOpen \/ MatchesHeader \/ MenuMatchesLine \/ MatchesEOF
    \/ Fold
    \/ MainEOF \/ MainQuit \/ MainTeam \/ MainMatches \/ MainStandings \/ MainInvalid
    \/ TeamNameEOF \/ TeamName
    \/ SubEOF \/ SubReturn \/ SubOption \/ SubNameEOF \/ SubName

SpecMenu == Init /\ [][MenuNext]_vars

\* a read of an input that has met its end returns at once, main.c:249 on
\* utils.c:164-167: the loop of main does not wait there
SpecMenuLive == SpecMenu /\ WF_vars(in_eof /\ MainEOF)


-----------------------------------------------------------------------------
(* Claims about the interactive loop, checked under SpecMenu and SpecMenuLive *)

\* the name a match side is listed under: that of the team at the lowest
\* registry position with the id, else the sentinel
ShownName(id) == IF WithId(id) = {} THEN Desconhecido ELSE bdt[FirstOf(WithId(id))].nome

\* the name begins with the prefix when both are lowercased
Begins(name, prefix) == HasPrefix(LowerStr(name), LowerStr(prefix))

\* the registry positions of the matches whose home name begins with the prefix
HomeMatches(prefix) == {i \in 1..Len(bdp) : Begins(ShownName(bdp[i].time1), prefix)}

\* the registry positions of the matches whose away name begins with the prefix
AwayMatches(prefix) == {i \in 1..Len(bdp) : Begins(ShownName(bdp[i].time2), prefix)}

\* the k-th position of S from the lowest
NthOf(S, k) == CHOOSE i \in S : Cardinality({j \in S : j < i}) = k - 1

\* the matches at the positions S in registry order, once each, as rows
RowsOf(S) ==
    [k \in 1..Cardinality(S) |->
        [id |-> bdp[NthOf(S, k)].id,
         n1 |-> ShownName(bdp[NthOf(S, k)].time1),
         g1 |-> bdp[NthOf(S, k)].g1,
         g2 |-> bdp[NthOf(S, k)].g2,
         n2 |-> ShownName(bdp[NthOf(S, k)].time2)]]

\* C24: the home listing prints exactly the matches whose home name begins
\* with the prefix case-insensitively, in registry order and once each, the
\* away listing does so for the away name, and the either listing prints the
\* matches of the one or the other; a side whose id no team has is listed
\* under the sentinel name; the no-results message is printed exactly when no
\* match is.
ListingsPrintExactlyTheMatchingMatches ==
    /\ m_call.fn = "bdpartidas_listar_por_mandante_prefixo" =>
          m_rows = RowsOf(HomeMatches(m_call.prefixo))
    /\ m_call.fn = "bdpartidas_listar_por_visitante_prefixo" =>
          m_rows = RowsOf(AwayMatches(m_call.prefixo))
    /\ m_call.fn = "bdpartidas_listar_por_qualquer_prefixo" =>
          m_rows = RowsOf(HomeMatches(m_call.prefixo) \cup AwayMatches(m_call.prefixo))
    /\ m_call.fn \in {"bdpartidas_listar_por_mandante_prefixo",
                      "bdpartidas_listar_por_visitante_prefixo",
                      "bdpartidas_listar_por_qualquer_prefixo"} =>
          (m_none <=> m_rows = <<>>)

\* the either listing printed two matches for "fL": one whose two names begin
\* with it, printed once, and one whose away side has no team
EitherListingWithBothSidesAndSentinel ==
    /\ m_call.fn = "bdpartidas_listar_por_qualquer_prefixo"
    /\ m_call.prefixo = <<102, 76>>
    /\ Len(m_rows) = 2
    /\ \E k \in 1..2 : Begins(m_rows[k].n1, m_call.prefixo) /\ Begins(m_rows[k].n2, m_call.prefixo)
    /\ \E k \in 1..2 : m_rows[k].n2 = Desconhecido
    /\ ~m_none


\* the line is empty or has only white space
IsBlank(s) == \A i \in 1..Len(s) : s[i] \in {32, 9, 10, 11, 12, 13}

\* C26: an empty or whitespace-only line read at the team-lookup prompt or at
\* the name prompt of the match submenu aborts the query with the message: no
\* search or listing is called, the registries are unchanged, and the program
\* is at a menu prompt; no search or listing is ever called with an empty prefix.
BlankPrefixAbortsTheQuery ==
    /\ [][(pc \in {"team_name", "sub_name"} /\ ~in_eof' /\ IsBlank(in_line')) =>
            /\ diag' = "prefixo_vazio"
            /\ m_call' = m_call /\ m_rows' = m_rows /\ m_none' = m_none
            /\ bdt' = bdt /\ bdp' = bdp
            /\ pc' = (IF pc = "team_name" THEN "menu" ELSE "sub")
            /\ exit_code' = exit_code]_vars
    /\ [](m_call.fn # "none" => m_call.prefixo # <<>>)

\* a line of white space was read at the name prompt of the submenu after a
\* listing: the query was aborted and the submenu asks for an option again
BlankNameAfterAListing ==
    /\ pc = "sub" /\ diag = "prefixo_vazio"
    /\ in_line = <<32, 9, 13>>
    /\ m_call.fn = "bdpartidas_listar_por_mandante_prefixo"
    /\ Len(m_rows) = 2


\* C27: once the teams are loaded, Q or q at the main menu ends the process
\* with code 0; an end of the input at the team prompt or at a prompt of the
\* submenu leads back to the main menu, whose read ends the process with code
\* 0; after the input has ended the process always ends, with code 0.
QuitAndEndOfInputEndWithCodeZero ==
    /\ [][(pc = "menu" /\ ~in_eof' /\ FirstChar(in_line') \in {81, 113}) =>
            pc' = "exit" /\ exit_code' = 0]_vars
    /\ [][(pc \in {"team_name", "sub", "sub_name"} /\ in_eof') => pc' = "menu"]_vars
    /\ [][(pc = "menu" /\ in_eof') => pc' = "exit" /\ exit_code' = 0]_vars
    /\ in_eof ~> (pc = "exit" /\ exit_code = 0)

\* the input ended at the option prompt of the submenu, entered with "2", and
\* the process has ended with code 0
EndedAfterEndOfInputInSubmenu ==
    /\ pc = "exit" /\ exit_code = 0 /\ in_eof
    /\ in_line = <<50>>
    /\ bdt # <<>>

=============================================================================
